---- MODULE Spec2Model ----
(***************************************************************************)
(* Catalog identity resolution and synchronisation: the scan_library run   *)
(* of catalogs/scanner.py (legacy tree) with the identity functions of     *)
(* catalogs/scoring.py and the master-catalog file of                      *)
(* library/master_catalog.py.                                              *)
(*                                                                         *)
(* Text is modelled as a tuple of one-character strings, so that the       *)
(* normalisations, prefixes and file-name rewrites are computed the way    *)
(* the code computes them.  A cell of the pandas table is either such a    *)
(* text or NaN (what read_csv yields for an empty cell).  A number that    *)
(* read_csv parsed is represented by the text str() gives for it, which is *)
(* the only way the code looks at a cell.                                  *)
(***************************************************************************)
EXTENDS Integers, Sequences, FiniteSets, TLC

-----------------------------------------------------------------------------
(* Text primitives (Python str methods and the regular expressions used)   *)

NaN == <<"NaN">>

\* str(value)
Str(v) == IF v = NaN THEN <<"n", "a", "n">> ELSE v

\* bool(value): the empty string is falsy, NaN and every other text truthy
Truthy(v) == v # <<>>

UpperChars ==
  <<"A", "B", "C", "D", "E", "F", "G", "H", "I", "J", "K", "L", "M",
    "N", "O", "P", "Q", "R", "S", "T", "U", "V", "W", "X", "Y", "Z">>

LowerChars ==
  <<"a", "b", "c", "d", "e", "f", "g", "h", "i", "j", "k", "l", "m",
    "n", "o", "p", "q", "r", "s", "t", "u", "v", "w", "x", "y", "z">>

Digits == {"0", "1", "2", "3", "4", "5", "6", "7", "8", "9"}

LowerSet == {LowerChars[i] : i \in 1..26}

UpperSet == {UpperChars[i] : i \in 1..26}

\* the least member of a set of positions, 0 when the set is empty
First(S) == IF S = {} THEN 0 ELSE CHOOSE i \in S : \A j \in S : i <= j

\* the lower-case letter of rank k, c itself when k is 0
LowerAt(c, k) == IF k = 0 THEN c ELSE LowerChars[k]

LowerChar(c) == LowerAt(c, First({i \in 1..26 : UpperChars[i] = c}))

\* str.lower()
Lower(s) == [i \in 1..Len(s) |-> LowerChar(s[i])]

RECURSIVE LStrip(_)
LStrip(s) == IF s # <<>> /\ Head(s) = " " THEN LStrip(Tail(s)) ELSE s

RECURSIVE RStrip(_)
RStrip(s) ==
  IF s # <<>> /\ s[Len(s)] = " " THEN RStrip(SubSeq(s, 1, Len(s) - 1)) ELSE s

\* str.strip()
Strip(s) == RStrip(LStrip(s))

\* re.sub(r"\s+", " ", text)
RECURSIVE CollapseSpaces(_)
CollapseSpaces(s) ==
  IF Len(s) < 2 THEN s
  ELSE IF s[1] = " " /\ s[2] = " " THEN CollapseSpaces(Tail(s))
  ELSE <<s[1]>> \o CollapseSpaces(Tail(s))

\* the greatest member of a set of positions, 0 when the set is empty
Last(S) == IF S = {} THEN 0 ELSE CHOOSE i \in S : \A j \in S : j <= i

\* str.find(sub) + 1: the position of the first occurrence of sub in s,
\* 0 when there is none
Find(s, sub) ==
  First({i \in 1..(Len(s) - Len(sub) + 1) :
           SubSeq(s, i, i + Len(sub) - 1) = sub})

\* sub in s
Contains(s, sub) == Find(s, sub) # 0

\* the part of s before position k, all of s when k is 0
UpTo(s, k) == IF k = 0 THEN s ELSE SubSeq(s, 1, k - 1)

\* s.split(sub, 1)[0]
Before(s, sub) == UpTo(s, Find(s, sub))

\* the words of s, w being the word read so far
RECURSIVE SplitWords(_, _)
SplitWords(s, w) ==
  IF s = <<>> THEN (IF w = <<>> THEN <<>> ELSE <<w>>)
  ELSE IF Head(s) = " "
    THEN (IF w = <<>> THEN <<>> ELSE <<w>>) \o SplitWords(Tail(s), <<>>)
  ELSE SplitWords(Tail(s), Append(w, Head(s)))

\* s.split(): the whitespace-separated words of s
Words(s) == SplitWords(s, <<>>)

\* " ".join(parts)
RECURSIVE Join(_)
Join(parts) ==
  IF parts = <<>> THEN <<>>
  ELSE IF Len(parts) = 1 THEN parts[1]
  ELSE parts[1] \o <<" ">> \o Join(Tail(parts))

\* s.replace(old, new) for single characters
ReplaceChars(s, olds, new) ==
  [i \in 1..Len(s) |-> IF s[i] \in olds THEN new ELSE s[i]]

-----------------------------------------------------------------------------
(* Identity resolver: catalogs/scoring.py                                  *)

Unknown == <<"U", "n", "k", "n", "o", "w", "n">>

Bar == <<"|">>

NormalizeText(value) ==
  LET text  == Lower(Strip(Str(value)))
      one   == CollapseSpaces(text)
      alnum == SelectSeq(one, LAMBDA c : c \in LowerSet \cup Digits \cup {" "})
  IN Strip(alnum)

\* first_author_last, lines 42-49: the first of the authors, stripped
FirstAuthor(text) ==
  Strip(IF Contains(text, <<";">>) THEN Before(text, <<";">>)
        ELSE IF Contains(text, <<" ", "a", "n", "d", " ">>)
          THEN Before(text, <<" ", "a", "n", "d", " ">>)
        ELSE text)

\* last or "Unknown"
OrUnknown(last) == IF last # <<>> THEN last ELSE Unknown

\* parts[-1], "Unknown" when there is no part
LastPart(parts) == IF parts = <<>> THEN Unknown ELSE parts[Len(parts)]

\* first_author_last, lines 50-58: the last name in the first author
LastName(first) ==
  IF first = <<>> THEN Unknown
  ELSE IF Contains(first, <<",">>) THEN OrUnknown(Strip(Before(first, <<",">>)))
  ELSE LastPart(Words(first))

FirstAuthorLast(authors) ==
  IF ~Truthy(authors) THEN Unknown ELSE LastName(FirstAuthor(Str(authors)))

\* fingerprint, lines 66-68: the three normalised parts put together
JoinParts(title_norm, author_last, year_norm) ==
  IF title_norm = <<>> /\ author_last = <<>> /\ year_norm = <<>>
    THEN <<>>
    ELSE title_norm \o Bar \o author_last \o Bar \o year_norm

Fingerprint(title, authors, year) ==
  JoinParts(NormalizeText(title), NormalizeText(FirstAuthorLast(authors)),
            NormalizeText(year))

PrimaryId(doi, isbn, fp, pdf_hash) ==
  IF Truthy(doi) THEN <<"d", "o", "i", ":">> \o Lower(Strip(Str(doi)))
  ELSE IF Truthy(isbn) THEN <<"i", "s", "b", "n", ":">> \o Strip(Str(isbn))
  ELSE IF Truthy(fp) THEN <<"f", "p", ":">> \o Strip(Str(fp))
  ELSE IF Truthy(pdf_hash) THEN <<"h", "a", "s", "h", ":">> \o Strip(Str(pdf_hash))
  ELSE <<>>

\* entry.get(name, "")
Get(entry, name) == IF name \in DOMAIN entry THEN entry[name] ELSE <<>>

\* str(entry.get(name, "")).strip()
Text(entry, name) == Strip(Str(Get(entry, name)))

\* CompletenessConfig.require_common_fields
RequireCommonFields == {"title", "authors", "year"}

\* _has_all
HasAll(entry, fields) == \A name \in fields : Text(entry, name) # <<>>

\* is_article_complete, under the default CompletenessConfig
IsArticleComplete(entry) ==
  /\ HasAll(entry, RequireCommonFields)
  /\ \/ Text(entry, "doi") # <<>>
     \/ /\ Text(entry, "journal") # <<>> \/ Text(entry, "venue") # <<>>
        /\ Text(entry, "volume") # <<>>
        /\ Text(entry, "issue") # <<>>
        /\ Text(entry, "pages") # <<>>

\* is_book_complete, under the default CompletenessConfig
IsBookComplete(entry) ==
  /\ HasAll(entry, RequireCommonFields)
  /\ Text(entry, "isbn") # <<>> \/ Text(entry, "url") # <<>>

\* is_complete
IsComplete(entry) ==
  IF Lower(Text(entry, "type")) = <<"b", "o", "o", "k">>
    THEN IsBookComplete(entry)
  ELSE IF Lower(Text(entry, "type")) = <<"a", "r", "t", "i", "c", "l", "e">>
    THEN IsArticleComplete(entry)
  ELSE FALSE

-----------------------------------------------------------------------------
(* The master table and its file                                           *)

\* the columns of the master table that the identity engine reads or writes
Fields ==
  {"doi", "isbn", "title", "authors", "year", "type", "journal", "venue",
   "last_seen_run", "file_hash", "primary_id", "fingerprint", "version",
   "replaced_by"}

\* {name: "" for name in master_df.columns}
EmptyRecord == [f \in Fields |-> <<>>]

IsInt(s) == s # <<>> /\ \A i \in 1..Len(s) : s[i] \in Digits

IsFloat(s) ==
  /\ Len(s) > 2
  /\ SubSeq(s, Len(s) - 1, Len(s)) = <<".", "0">>
  /\ IsInt(SubSeq(s, 1, Len(s) - 2))

\* pandas.read_csv of one column: an empty cell is NaN; a column whose
\* filled cells are all numbers is int64, or float64 as soon as one cell is
\* empty or a float; str() of a float64 cell ends in ".0"
ReadColumn(cells) ==
  LET n       == Len(cells)
      filled  == {i \in 1..n : cells[i] # <<>>}
      numeric == \A i \in filled : IsInt(cells[i]) \/ IsFloat(cells[i])
      float   == filled # 1..n \/ \E i \in filled : IsFloat(cells[i])
  IN [i \in 1..n |->
        IF cells[i] = <<>> THEN NaN
        ELSE IF numeric /\ float /\ IsInt(cells[i])
          THEN cells[i] \o <<".", "0">>
        ELSE cells[i]]

\* pandas.read_csv(master_path): file is [cols, rows], a missing column is
\* absent from the frame
ReadCsv(file) ==
  [i \in 1..Len(file.rows) |->
     [f \in file.cols |->
        ReadColumn([j \in 1..Len(file.rows) |-> file.rows[j][f]])[i]]]

\* _ensure_columns: a column the frame lacks is added, filled with ""
EnsureColumns(df, cols) ==
  [i \in 1..Len(df) |->
     [f \in (DOMAIN df[i]) \cup cols |->
        IF f \in DOMAIN df[i] THEN df[i][f] ELSE <<>>]]

\* load_master_catalog, then scan_library's own _ensure_columns
LoadMasterCatalog(file) == EnsureColumns(ReadCsv(file), Fields)

\* scan_library, lines 932-934: the table a run starts from
LoadedTable(file) == IF file.exists THEN LoadMasterCatalog(file) ELSE <<>>

\* DataFrame.to_csv(index=False) of a frame with the columns cols: NaN is
\* written as an empty cell
ToCsv(df, cols) ==
  [exists |-> TRUE,
   cols   |-> cols,
   rows   |-> [i \in 1..Len(df) |->
                 [f \in Fields |->
                    IF f \notin cols \/ df[i][f] = NaN THEN <<>> ELSE df[i][f]]]]

-----------------------------------------------------------------------------
(* Catalog merge engine: catalogs/scanner.py                               *)

IdKinds == {"doi", "isbn", "fingerprint", "file_hash"}

\* the key under which the index files a cell of kind k
IndexKey(k, cell) ==
  IF k = "doi" THEN Lower(Strip(Str(cell))) ELSE Strip(Str(cell))

\* setdefault over the keys of one column: each key that is not empty is
\* filed under the first row that has it; rows are numbered from 1 here
FirstRows(keys) ==
  [key \in {keys[i] : i \in DOMAIN keys} \ {<<>>} |->
     First({i \in DOMAIN keys : keys[i] = key})]

\* _build_index
BuildIndex(df) ==
  [k \in IdKinds |-> FirstRows([i \in 1..Len(df) |-> IndexKey(k, df[i][k])])]

\* the order in which _find_match tries the identifiers
IdOrder == <<"doi", "isbn", "fingerprint", "file_hash">>

\* `if key and key in table: return table[key]`, 0 standing for no return
Lookup(table, key) ==
  IF key # <<>> /\ key \in DOMAIN table THEN table[key] ELSE 0

\* the first of the lookups that returned, 0 (None) when none did
FirstHit(hits) ==
  IF \A n \in DOMAIN hits : hits[n] = 0 THEN 0
  ELSE hits[First({n \in DOMAIN hits : hits[n] # 0})]

\* _find_match that does not try the fingerprint
FindMatchNoFingerprint(entry, idx) ==
  FirstHit([n \in {1, 2, 4} |->
              Lookup(idx[IdOrder[n]], IndexKey(IdOrder[n], entry[IdOrder[n]]))])

\* _find_match: 0 stands for None
FindMatch(entry, idx) ==
  FirstHit([n \in 1..4 |->
              Lookup(idx[IdOrder[n]], IndexKey(IdOrder[n], entry[IdOrder[n]]))])

\* `if key: table[key] = pos`
Put(table, key, pos) ==
  IF key # <<>>
    THEN [x \in (DOMAIN table) \cup {key} |-> IF x = key THEN pos ELSE table[x]]
    ELSE table

\* _update_index that files nothing
UpdateIndexNothing(idx, row, pos) == idx

\* _update_index
UpdateIndex(idx, row, pos) ==
  [k \in IdKinds |-> Put(idx[k], IndexKey(k, row[k]), pos)]

\* _merge_fields without its test of the target: source wins
MergeFieldsOverwrite(target, source) ==
  [f \in (DOMAIN target) \cup (DOMAIN source) |->
     IF f \in DOMAIN source /\ Strip(Str(source[f])) # <<>> THEN source[f]
     ELSE IF f \in DOMAIN target THEN target[f]
     ELSE <<>>]

\* _merge_fields: a key of source is copied when source has text for it and
\* str(target[key]).strip() is empty
MergeFields(target, source) ==
  [f \in (DOMAIN target) \cup (DOMAIN source) |->
     IF f \notin DOMAIN source THEN target[f]
     ELSE IF Strip(Str(source[f])) = <<>> THEN
       (IF f \in DOMAIN target THEN target[f] ELSE <<>>)
     ELSE IF f \in DOMAIN target /\ Strip(Str(target[f])) # <<>>
       THEN target[f]
     ELSE source[f]]

PreprintTags ==
  {<<"a", "r", "x", "i", "v">>, <<"b", "i", "o", "r", "x", "i", "v">>,
   <<"m", "e", "d", "r", "x", "i", "v">>,
   <<"p", "r", "e", "p", "r", "i", "n", "t">>}

\* _is_preprint
IsPreprint(entry) ==
  LET text == Lower(Str(entry.journal) \o <<" ">> \o Str(entry.venue)
                    \o <<" ">> \o Str(entry.doi))
  IN \E tag \in PreprintTags : Contains(text, tag)

VPreprint == <<"p", "r", "e", "p", "r", "i", "n", "t">>

VFinal == <<"f", "i", "n", "a", "l">>

\* _resolve_version
ResolveVersion(entry) ==
  IF IsPreprint(entry) THEN VPreprint
  ELSE IF Truthy(entry.doi) THEN VFinal ELSE <<>>

\* _fill_identifiers, lines 877-880: the fingerprint cell of one row
FillFingerprint(row) ==
  IF Strip(Str(row.fingerprint)) = <<>>
    THEN [row EXCEPT !.fingerprint = Fingerprint(row.title, row.authors, row.year)]
    ELSE row

\* _fill_identifiers, lines 881-884: the primary_id cell of one row, from
\* the fingerprint cell as it is by then
FillPrimaryId(row) ==
  IF Strip(Str(row.primary_id)) = <<>>
    THEN [row EXCEPT !.primary_id =
            PrimaryId(row.doi, row.isbn, row.fingerprint, row.file_hash)]
    ELSE row

\* _fill_identifiers
FillIdentifiers(df) ==
  [i \in 1..Len(df) |-> FillPrimaryId(FillFingerprint(df[i]))]

\* _apply_preprint_replacements
\* the last final row of the group instead of the first
LastFinal(df, fp) ==
  Last({j \in 1..Len(df) : /\ Strip(Str(df[j].fingerprint)) = fp
                           /\ Str(df[j].version) = VFinal})

\* lines 899-908: the first final row of the group of fingerprint fp, 0
\* when the group has no final row
FirstFinal(df, fp) ==
  First({j \in 1..Len(df) : /\ Strip(Str(df[j].fingerprint)) = fp
                            /\ Str(df[j].version) = VFinal})

\* lines 907-910: a preprint row of a group that has a final row is given
\* the primary_id of the group's first final row
Replace(df, row, final) ==
  IF /\ Strip(Str(row.fingerprint)) # <<>>
     /\ Str(row.version) = VPreprint
     /\ final # 0
    THEN [row EXCEPT !.replaced_by = Strip(Str(df[final].primary_id))]
    ELSE row

\* _apply_preprint_replacements
ApplyPreprintReplacements(df) ==
  [i \in 1..Len(df) |->
     Replace(df, df[i], FirstFinal(df, Strip(Str(df[i].fingerprint))))]

-----------------------------------------------------------------------------
(* Enrichment of one document: _process_pdf and its helpers                *)

TBook == <<"b", "o", "o", "k">>

TArticle == <<"a", "r", "t", "i", "c", "l", "e">>

TUnknown == <<"u", "n", "k", "n", "o", "w", "n">>

\* the four characters of name from position i, "" when i is 0
FourFrom(name, i) == IF i = 0 THEN <<>> ELSE SubSeq(name, i, i + 3)

\* re.search(r"(19|20)\d{2}", name): the first match, "" when none
YearIn(name) ==
  FourFrom(name,
           First({i \in 1..(Len(name) - 3) :
                    /\ SubSeq(name, i, i + 1) \in {<<"1", "9">>, <<"2", "0">>}
                    /\ name[i + 2] \in Digits
                    /\ name[i + 3] \in Digits}))

\* _extract_meta_from_filename, lines 204-210; a key the code leaves out
\* has no text here, which _merge_fields treats alike
FilenameMeta(year, parts) ==
  [year    |-> year,
   authors |-> IF parts # <<>> THEN parts[1] ELSE <<>>,
   title   |-> IF Len(parts) >= 3 THEN Join(Tail(parts)) ELSE <<>>]

\* path.stem.replace("_", " ").replace("-", " ")
SpacedName(stem) == ReplaceChars(stem, {"_", "-"}, " ")

\* _extract_meta_from_filename
ExtractMetaFromFilename(stem) ==
  FilenameMeta(YearIn(SpacedName(stem)), Words(SpacedName(stem)))

BookWords ==
  {<<"b", "o", "o", "k">>, <<"l", "i", "v", "r", "e">>,
   <<"o", "u", "v", "r", "a", "g", "e">>}

ArticleWords ==
  {<<"a", "r", "t", "i", "c", "l", "e">>, <<"j", "o", "u", "r", "n", "a", "l">>,
   <<"r", "e", "v", "u", "e">>, <<"p", "a", "p", "e", "r">>}

\* _guess_doc_type, lines 265-270: the type the words of the text give
TextType(text) ==
  IF \E word \in BookWords : Contains(Lower(text), word) THEN TBook
  ELSE IF \E word \in ArticleWords : Contains(Lower(text), word) THEN TArticle
  ELSE TUnknown

\* _guess_doc_type that does not read the text
GuessDocTypeIds(doi, isbn, text_type) ==
  IF Truthy(isbn) THEN TBook
  ELSE IF Truthy(doi) THEN TArticle
  ELSE TUnknown

\* _guess_doc_type; text_type is what the words of the extracted text give
GuessDocType(doi, isbn, text_type) ==
  IF Truthy(isbn) THEN TBook
  ELSE IF Truthy(doi) THEN TArticle
  ELSE text_type

NoMeta == [title |-> <<>>]

\* _process_pdf, lines 734-750: the entry before any enrichment
BaseEntry(pdf, stem) ==
  [file_hash |-> pdf.file_hash,
   doi       |-> pdf.doi,
   isbn      |-> pdf.isbn,
   title     |-> IF Truthy(pdf.meta.title) THEN pdf.meta.title ELSE stem,
   authors   |-> pdf.meta.authors,
   year      |-> pdf.meta.year,
   type      |-> GuessDocType(pdf.doi, pdf.isbn, pdf.text_type),
   journal   |-> <<>>,
   venue     |-> <<>>]

\* lines 756-765: enrichment by DOI
EnrichByDoi(entry, crossref_meta, semantic_meta) ==
  IF Truthy(entry.doi)
    THEN MergeFields(MergeFields(entry, crossref_meta), semantic_meta)
    ELSE entry

\* lines 775-803: enrichment by a title search, when the DOI is missing
EnrichBySearch(entry, search_meta) ==
  IF ~Truthy(entry.doi) /\ Truthy(entry.title)
    THEN MergeFields(entry, search_meta)
    ELSE entry

\* lines 808-811: second by-DOI lookup when the journal is still missing
ReEnrich(entry, crossref_meta) ==
  IF Truthy(entry.doi) /\ ~Truthy(entry.journal)
    THEN MergeFields(entry, crossref_meta)
    ELSE entry

\* lines 813-817
AdjustType(entry) ==
  IF Truthy(entry.isbn) THEN [entry EXCEPT !.type = TBook]
  ELSE IF Truthy(entry.doi) THEN [entry EXCEPT !.type = TArticle]
  ELSE entry

\* what a by-DOI lookup gives: the provider's answer when it gets one
Answer(online, meta) == IF online THEN meta ELSE NoMeta

\* _process_pdf for a readable PDF.  pdf holds what the file and the
\* providers have to say about the document, stem is the file's current
\* name, online tells whether the by-DOI lookups of this run get an answer.
\* A title search answers what it answered first (its result, also an empty
\* one, is cached under the title|authors|year key).
ProcessPdf(pdf, stem, online) ==
  AdjustType(
    ReEnrich(
      MergeFields(
        EnrichBySearch(
          EnrichBySearch(
            EnrichByDoi(MergeFields(BaseEntry(pdf, stem), pdf.heur),
                        Answer(online, pdf.crossref),
                        Answer(online, pdf.semantic)),
            pdf.crossref_search),
          pdf.semantic_search),
        ExtractMetaFromFilename(stem)),
      Answer(online, pdf.crossref)))

\* _process_pdf, lines 734-754: the entry from the file alone
LocalEntry(pdf, old_stem) == MergeFields(BaseEntry(pdf, old_stem), pdf.heur)

\* lines 756-802: the entry when the filename is read
BeforeFilename(pdf, old_stem, online) ==
  EnrichBySearch(
    EnrichBySearch(
      EnrichByDoi(LocalEntry(pdf, old_stem), Answer(online, pdf.crossref),
                  Answer(online, pdf.semantic)),
      pdf.crossref_search),
    pdf.semantic_search)

\* lines 757-765: the by-DOI answers asked for with the DOI of the file
AskedByDoi(pdf, entry, online) ==
  IF Truthy(entry.doi)
    THEN <<Answer(online, pdf.crossref), Answer(online, pdf.semantic)>>
    ELSE <<>>

\* lines 776 and 790: the answer of a title search, when it was made
AskedBySearch(entry, search_meta) ==
  IF ~Truthy(entry.doi) /\ Truthy(entry.title) THEN <<search_meta>> ELSE <<>>

\* lines 809-810: the by-DOI answer asked for after the filename was read
AskedAgain(pdf, entry, online) ==
  IF Truthy(entry.doi) /\ ~Truthy(entry.journal)
    THEN <<Answer(online, pdf.crossref)>>
    ELSE <<>>

\* every provider response that _process_pdf consulted for the document
Consulted(pdf, old_stem, online) ==
  AskedByDoi(pdf, LocalEntry(pdf, old_stem), online)
    \o AskedBySearch(EnrichByDoi(LocalEntry(pdf, old_stem),
                                 Answer(online, pdf.crossref),
                                 Answer(online, pdf.semantic)),
                     pdf.crossref_search)
    \o AskedBySearch(EnrichBySearch(
                       EnrichByDoi(LocalEntry(pdf, old_stem),
                                   Answer(online, pdf.crossref),
                                   Answer(online, pdf.semantic)),
                       pdf.crossref_search),
                     pdf.semantic_search)
    \o AskedAgain(pdf,
                  MergeFields(BeforeFilename(pdf, old_stem, online),
                              ExtractMetaFromFilename(old_stem)),
                  online)

\* an answer without data: the {} of a lookup that found nothing
NoData(meta) == \A name \in DOMAIN meta : meta[name] = <<>>

\* warnings.append(code) under its condition
Warn(condition, code) == IF condition THEN <<code>> ELSE <<>>

\* lines 759-763: the warnings of the by-DOI lookups
WarnByDoi(pdf, entry, online) ==
  IF Truthy(entry.doi)
    THEN Warn(NoData(Answer(online, pdf.crossref)), "CROSSREF_FAIL")
           \o Warn(NoData(Answer(online, pdf.semantic)), "SEMANTIC_FAIL")
    ELSE <<>>

\* lines 776-788 and 790-802: the warning of a title search
WarnBySearch(entry, search_meta, code) ==
  Warn(~Truthy(entry.doi) /\ Truthy(entry.title) /\ NoData(search_meta), code)

\* line 819
MissingCore(entry) ==
  ~(/\ Strip(Str(entry.title)) # <<>>
    /\ Strip(Str(entry.authors)) # <<>>
    /\ Strip(Str(entry.year)) # <<>>)

\* the warnings of _process_pdf for a readable PDF, in the order of their
\* append; the OCR of a document without identifier gives no text
Warnings(pdf, old_stem, online) ==
  Warn(~Truthy(pdf.doi), "DOI_NOT_FOUND")
    \o Warn(~Truthy(pdf.doi) /\ ~Truthy(pdf.isbn), "OCR_FAIL")
    \o WarnByDoi(pdf, LocalEntry(pdf, old_stem), online)
    \o WarnBySearch(EnrichByDoi(LocalEntry(pdf, old_stem),
                                Answer(online, pdf.crossref),
                                Answer(online, pdf.semantic)),
                    pdf.crossref_search, "CROSSREF_SEARCH_FAIL")
    \o WarnBySearch(EnrichBySearch(
                      EnrichByDoi(LocalEntry(pdf, old_stem),
                                  Answer(online, pdf.crossref),
                                  Answer(online, pdf.semantic)),
                      pdf.crossref_search),
                    pdf.semantic_search, "SEMANTIC_SEARCH_FAIL")
    \o Warn(MissingCore(ProcessPdf(pdf, old_stem, online)), "MISSING_CORE")

\* re.sub(r"_+", "_", s)
RECURSIVE CollapseUnderscores(_)
CollapseUnderscores(s) ==
  IF Len(s) < 2 THEN s
  ELSE IF s[1] = "_" /\ s[2] = "_" THEN CollapseUnderscores(Tail(s))
  ELSE <<s[1]>> \o CollapseUnderscores(Tail(s))

\* str.strip("_")
RECURSIVE StripUnderscores(_)
StripUnderscores(s) ==
  IF s # <<>> /\ Head(s) = "_" THEN StripUnderscores(Tail(s))
  ELSE IF s # <<>> /\ s[Len(s)] = "_"
    THEN StripUnderscores(SubSeq(s, 1, Len(s) - 1))
  ELSE s

MaxNameLen == 120

\* s[:n]
Prefix(s, n) == SubSeq(s, 1, IF Len(s) < n THEN Len(s) ELSE n)

\* re.sub(r"[^A-Za-z0-9_-]", "_", base)
KeepNameChars(base) ==
  [i \in 1..Len(base) |->
     IF base[i] \in LowerSet \cup UpperSet \cup Digits \cup {"_", "-"}
       THEN base[i] ELSE "_"]

\* _safe_filename, lines 217-220
ShortenName(cleaned, pdf_hash) ==
  IF cleaned = <<>> THEN <<"d", "o", "c", "_">> \o Prefix(pdf_hash, 8)
  ELSE IF Len(cleaned) > MaxNameLen
    THEN Prefix(cleaned, 60) \o <<"_">> \o Prefix(pdf_hash, 8)
  ELSE cleaned

\* _safe_filename
SafeFilename(base, pdf_hash) ==
  ShortenName(StripUnderscores(CollapseUnderscores(KeepNameChars(base))),
              pdf_hash)

\* _rename_pdf, for a file that is alone in its directory with that author
\* and year: the new stem of the file
RenamePdf(stem, author_last, year, pdf_hash) ==
  SafeFilename(author_last \o <<"_">> \o year, pdf_hash)

-----------------------------------------------------------------------------
(* The documents that can be put under the PDF root                        *)

TFooBar == <<"F", "o", "o", " ", "B", "a", "r">>

TBaz == <<"B", "a", "z">>

ASmith == <<"S", "m", "i", "t", "h", ",", " ", "J", ".">>

Y2020 == <<"2", "0", "2", "0">>

DoiFoobar ==
  <<"1", "0", ".", "1", "0", "0", "0", "/", "f", "o", "o", "b", "a", "r">>

JArxiv == <<"a", "r", "X", "i", "v">>

JExamples ==
  <<"J", "o", "u", "r", "n", "a", "l", " ", "o", "f", " ",
    "E", "x", "a", "m", "p", "l", "e", "s">>

BlankPdf ==
  [file_hash |-> <<>>, stem |-> <<>>, doi |-> <<>>, isbn |-> <<>>,
   meta |-> [title |-> <<>>, authors |-> <<>>, year |-> <<>>],
   heur |-> NoMeta, text_type |-> TUnknown,
   crossref |-> NoMeta, semantic |-> NoMeta,
   crossref_search |-> NoMeta, semantic_search |-> NoMeta]

FooBarMeta == [title |-> TFooBar, authors |-> ASmith, year |-> Y2020]

\* the preprint of "Foo Bar": no DOI, the title search names arXiv
PdfA ==
  [BlankPdf EXCEPT !.file_hash = <<"a", "1">>, !.stem = <<"p", "r", "e">>,
                   !.meta = FooBarMeta,
                   !.semantic_search = [journal |-> JArxiv]]

\* the published "Foo Bar", with its DOI in the text
PdfB ==
  [BlankPdf EXCEPT !.file_hash = <<"b", "2">>, !.stem = <<"p", "u", "b">>,
                   !.meta = FooBarMeta, !.doi = DoiFoobar,
                   !.crossref = [journal |-> JExamples]]

\* two different scans without metadata or text, both named doc.pdf
PdfC ==
  [BlankPdf EXCEPT !.file_hash = <<"c", "3">>, !.stem = <<"d", "o", "c">>]

PdfD ==
  [BlankPdf EXCEPT !.file_hash = <<"d", "4">>, !.stem = <<"d", "o", "c">>]

\* a document titled "Baz" that prints the DOI of "Foo Bar"
PdfE ==
  [BlankPdf EXCEPT !.file_hash = <<"e", "5">>, !.stem = <<"s", "u", "p">>,
                   !.meta = [FooBarMeta EXCEPT !.title = TBaz],
                   !.doi = DoiFoobar,
                   !.crossref = [journal |-> JExamples]]

Library == {PdfA, PdfB, PdfC, PdfD, PdfE}

Hashes == {pdf.file_hash : pdf \in Library}

PdfOf(h) == CHOOSE pdf \in Library : pdf.file_hash = h

-----------------------------------------------------------------------------
(* CSV import into the master file: sync_catalog of library/master_catalog *)

StartsWith(s, prefix) ==
  Len(s) >= Len(prefix) /\ SubSeq(s, 1, Len(prefix)) = prefix

DropPrefix(s, prefix) == SubSeq(s, Len(prefix) + 1, Len(s))

HttpsDoiOrg ==
  <<"h", "t", "t", "p", "s", ":", "/", "/", "d", "o", "i", ".", "o", "r", "g", "/">>

HttpDoiOrg ==
  <<"h", "t", "t", "p", ":", "/", "/", "d", "o", "i", ".", "o", "r", "g", "/">>

\* _normalize_doi, lines 81-87: text without its resolver or scheme prefix
WithoutDoiPrefix(text, lowered) ==
  IF StartsWith(lowered, HttpsDoiOrg) THEN DropPrefix(text, HttpsDoiOrg)
  ELSE IF StartsWith(lowered, HttpDoiOrg) THEN DropPrefix(text, HttpDoiOrg)
  ELSE IF StartsWith(lowered, <<"d", "o", "i", ":">>)
    THEN DropPrefix(text, <<"d", "o", "i", ":">>)
  ELSE text

\* _normalize_doi, lines 78-88, of the stripped text and its lower case
NormalizeDoiText(text, lowered) ==
  IF text = <<>> \/ lowered = <<"n", "a", "n">> THEN <<>>
  ELSE Lower(Strip(WithoutDoiPrefix(text, lowered)))

\* _normalize_doi
NormalizeDoi(value) ==
  IF value = NaN THEN <<>>
  ELSE NormalizeDoiText(Strip(Str(value)), Lower(Strip(Str(value))))

\* _normalize_text of master_catalog.py, lines 95-98, of the stripped text
NormalizeStripped(text) ==
  IF text = <<>> \/ Lower(text) = <<"n", "a", "n">> THEN <<>>
  ELSE Lower(Join(Words(text)))

\* _normalize_text of master_catalog.py
CatalogNormalizeText(value) ==
  IF value = NaN THEN <<>> ELSE NormalizeStripped(Strip(Str(value)))

DigitChars == <<"0", "1", "2", "3", "4", "5", "6", "7", "8", "9">>

\* _catalog_key, lines 104-110, of the normalised values; fallback is the
\* position of the row, below ten here
KeyOf(doi_norm, title_norm, year_norm, fallback) ==
  IF doi_norm # <<>> THEN <<"d", "o", "i", ":">> \o doi_norm
  ELSE IF title_norm # <<>> \/ year_norm # <<>>
    THEN <<"t", "i", "t", "l", "e", "_", "y", "e", "a", "r", ":">>
         \o title_norm \o Bar \o year_norm
  ELSE <<"u", "n", "k", "n", "o", "w", "n", ":">> \o <<DigitChars[fallback + 1]>>

\* _catalog_key
CatalogKey(doi, title, year, fallback) ==
  KeyOf(NormalizeDoi(doi), CatalogNormalizeText(title),
        CatalogNormalizeText(year), fallback)

\* pandas.DataFrame(records) for one column: values that are all numbers or
\* NaN make a numeric column, float64 as soon as one is NaN or a float
FrameColumn(cells) ==
  LET n       == Len(cells)
      numeric == \A i \in 1..n :
                   cells[i] = NaN \/ IsInt(cells[i]) \/ IsFloat(cells[i])
      float   == \E i \in 1..n : cells[i] = NaN \/ IsFloat(cells[i])
  IN [i \in 1..n |->
        IF numeric /\ float /\ cells[i] # NaN /\ IsInt(cells[i])
          THEN cells[i] \o <<".", "0">>
          ELSE cells[i]]

\* the columns of a run CSV, among those of the model
RunColumns == {"doi", "title", "year"}

RunCsvPath == <<"r", "u", "n", ".", "c", "s", "v">>

\* line 124: the one row of the run CSV, as read_csv gives it
ReadRunRow(run_row) == ReadCsv([cols |-> RunColumns, rows |-> <<run_row>>])[1]

\* lines 146-157: the columns of master_df
SyncColumns(master_file) ==
  (IF master_file.exists THEN master_file.cols ELSE RunColumns)
    \cup {"last_seen_run"} \cup RunColumns

\* lines 146-159: master_records
MasterRecords(master_file, cols) ==
  EnsureColumns(IF master_file.exists THEN ReadCsv(master_file) ELSE <<>>, cols)

\* lines 160-166 and 175-176: the first record filed under key, 0 when
\* none is
KeyMapGet(master_records, key) ==
  First({i \in 1..Len(master_records) :
           CatalogKey(master_records[i].doi, master_records[i].title,
                      master_records[i].year, i - 1) = key})

\* lines 175-197: the record of a key that is known
UpdatedRecord(record, row, cols) ==
  [f \in cols |->
     IF f = "last_seen_run" THEN RunCsvPath
     ELSE IF f \in RunColumns /\ record[f] = <<>> THEN row[f]
     ELSE record[f]]

\* lines 198-206: the record of a key that is new
NewRecord(row, cols) ==
  [f \in cols |->
     IF f = "last_seen_run" THEN RunCsvPath
     ELSE IF f \in RunColumns THEN row[f]
     ELSE <<>>]

\* lines 172-208: the records after the row of the run, hit being where its
\* key is filed
Upsert(master_records, row, cols, hit) ==
  IF hit # 0
    THEN [master_records EXCEPT ![hit] = UpdatedRecord(@, row, cols)]
    ELSE Append(master_records, NewRecord(row, cols))

\* line 210: pandas.DataFrame(master_records)
Frame(records, cols) ==
  [i \in 1..Len(records) |->
     [f \in cols |->
        FrameColumn([j \in 1..Len(records) |-> records[j][f]])[i]]]

\* lines 159-210
SyncRecords(master_records, row, cols) ==
  Frame(Upsert(master_records, row, cols,
               KeyMapGet(master_records,
                         CatalogKey(row.doi, row.title, row.year, 0))),
        cols)

\* lines 146-234: the master file written for the row and the columns
SyncWrite(master_file, row, cols) ==
  ToCsv(EnsureColumns(SyncRecords(MasterRecords(master_file, cols), row, cols),
                      Fields),
        cols)

\* sync_catalog for a run CSV of one row: the master file it leaves
SyncCatalogFile(master_file, run_row) ==
  SyncWrite(master_file, ReadRunRow(run_row), SyncColumns(master_file))

-----------------------------------------------------------------------------
(* One step of scan_library's merge loop                                   *)

\* entry[key] = value
Set(entry, key, value) == (key :> value) @@ entry

\* lines 986-990: the identity fields scan_library adds to a worker's entry
SetFingerprint(entry) ==
  Set(entry, "fingerprint", Fingerprint(entry.title, entry.authors, entry.year))

SetPrimaryId(entry) ==
  Set(entry, "primary_id",
      PrimaryId(entry.doi, entry.isbn, entry.fingerprint, entry.file_hash))

SetVersion(entry) == Set(entry, "version", ResolveVersion(entry))

WithIdentity(entry) == SetVersion(SetPrimaryId(SetFingerprint(entry)))

\* lines 1007-1008: the type of a matched row
TypeRule(merged, entry) ==
  IF merged.type \in {<<>>, TUnknown} /\ Truthy(entry.type)
    THEN [merged EXCEPT !.type = entry.type]
    ELSE merged

\* the matched row rebuilt from the candidate alone
MergeIntoRowAnew(current, entry) == MergeFields(EmptyRecord, entry)

\* lines 1004-1010: the row a matched row becomes
MergeIntoRow(current, entry) == TypeRule(MergeFields(current, entry), entry)

\* lines 995-1001: a row is appended and filed in the indexes
CreateRow(df, idx, new_record) ==
  [df    |-> Append(df, new_record),
   index |-> UpdateIndex(idx, new_record, Len(df) + 1),
   row   |-> Len(df) + 1,
   op    |-> "created"]

\* lines 1002-1011: the matched row takes what it lacks
UpdateRow(df, idx, entry, match_idx) ==
  [df    |-> [df EXCEPT ![match_idx] = MergeIntoRow(@, entry)],
   index |-> idx,
   row   |-> match_idx,
   op    |-> "updated"]

\* lines 993-1011, match_idx being what _find_match returned
MergeAt(df, idx, entry, match_idx) ==
  IF match_idx = 0
    THEN CreateRow(df, idx, MergeFields(EmptyRecord, entry))
    ELSE UpdateRow(df, idx, entry, match_idx)

\* lines 993-1011: match the entry, then append a row or merge into one;
\* gives the table, the indexes, the row touched and what was done
MergeCandidate(df, idx, entry) ==
  MergeAt(df, idx, entry, FindMatch(entry, idx))

-----------------------------------------------------------------------------
(* State                                                                   *)

\* the most PDF files under the PDF root, scan runs and CSV imports explored
MaxPdfs == 3

MaxRuns == 2

MaxImports == 1

\* the rows a CSV import can bring
ImportRows ==
  {[doi |-> <<>>, title |-> TFooBar, year |-> Y2020],
   [doi |-> DoiFoobar, title |-> TFooBar, year |-> Y2020]}

VARIABLES
  master_file,  \* master_catalog.csv: [exists, cols, rows]
  present,      \* hashes of the PDF files under the PDF root
  stem,         \* current file name (without .pdf) of each PDF
  pc,           \* where scan_library stands: idle, merging, filled, resolved
  master_df,    \* scan_library's table
  index,        \* scan_library's four indexes
  pending,      \* files whose future the merge loop has not drained yet
  merged,       \* this run: file hash -> the entry merged, its row, created/updated
  counts,       \* this run's counters
  runs,         \* scan runs started
  imports,      \* CSV imports done
  prev,         \* hashes of the files merged by the previous run
  clock,        \* datetime.now(), in whole seconds
  scan_tag,     \* scan_library's scan_tag, <<>> outside a run
  scan_runs,    \* the directory scan_runs: file name -> the summary in it
  latest,       \* scan_runs/latest.json: [exists, runs]
  scored,       \* the record handed to a scoring function
  score,        \* what the scoring function called last returned
  interval,     \* _RateLimiter.interval, in ticks of the clock
  now,          \* time.monotonic(), in ticks
  last,         \* _RateLimiter._last
  limiter_lock, \* _RateLimiter._lock: the worker holding it, 0 when free
  worker,       \* each worker thread: where it stands in _crossref_meta
  last_return,  \* when wait() returned last, -1 before the first return
  cache_file,   \* scan_cache.json: [exists, json]
  cache_made,   \* whether _MetadataCache(...) has returned a cache
  cache_data,   \* _MetadataCache.data
  cache_lock,   \* _MetadataCache._lock: the worker holding it, 0 when free
  lookup,       \* the provider lookup made last: [kind, response, requested]
  exc,          \* the exception that the last call raised, "" when none
  doc,          \* the document handed to _process_pdf
  call,         \* where the worker and the merge of its entry stand
  candidate,    \* the entry that _process_pdf returned, with its identity
  matched       \* the row that _find_match gave for the candidate

\* the state of scan_library and of the files it works on
scan_vars ==
  <<master_file, present, stem, pc, master_df, index, pending, merged,
    counts, runs, imports, prev>>

\* the run summaries and what names them
summary_vars == <<clock, scan_tag, scan_runs, latest>>

\* a call of a function of catalogs/scoring.py
scoring_vars == <<scored, score>>

\* the rate limiter, the clock and the worker threads
limiter_vars == <<interval, now, last, limiter_lock, worker, last_return>>

\* the metadata cache and its snapshot
cache_vars == <<cache_file, cache_made, cache_data, cache_lock, lookup>>

\* what a call of scan_library raised
fault_vars == <<exc>>

\* one document on its way from the worker into a matched row
merge_vars == <<doc, call, candidate, matched>>

\* the state that a scan run that ends by returning does not touch
other_vars ==
  <<scoring_vars, limiter_vars, cache_vars, fault_vars, merge_vars>>

vars == <<scan_vars, summary_vars, other_vars>>

\* the codes that _process_pdf appends to its warnings and its errors
WarningCodes ==
  {"DOI_NOT_FOUND", "OCR_FAIL", "CROSSREF_FAIL", "SEMANTIC_FAIL",
   "GROBID_FAIL", "CROSSREF_SEARCH_FAIL", "SEMANTIC_SEARCH_FAIL",
   "MISSING_CORE"}

ErrorCodes == {"PARSE_FAIL"}

\* lines 939-949: the counters of a run; a code that a histogram does not
\* hold counts 0
NoCounts ==
  [total |-> 0, processed |-> 0, created |-> 0, updated |-> 0,
   matched |-> 0, errors |-> 0, warnings |-> 0,
   error_counts |-> [code \in ErrorCodes |-> 0],
   warning_counts |-> [code \in WarningCodes |-> 0]]

NoFile == [exists |-> FALSE, cols |-> Fields, rows |-> <<>>]

\* no run: scan_tag is not bound
NoTag == <<>>

\* no latest.json
NoLatest == [exists |-> FALSE, runs |-> <<>>]

\* nothing was summarised yet
SummaryInit ==
  /\ clock = 0
  /\ scan_tag = NoTag
  /\ scan_runs = <<>>
  /\ latest = NoLatest

\* no scoring function was called
NoScore == [fn |-> "", value |-> <<>>]

ScoringInit ==
  /\ scored = EmptyRecord
  /\ score = NoScore

\* the four kinds of provider answers that _MetadataCache keeps
Kinds == {"crossref", "semantic", "crossref_search", "semantic_search"}

\* a value that json.loads gives or json.dumps takes, with its Python type
Dict(items) == [py |-> "dict", items |-> items]

\* []; any value that is not a dict behaves as this one does here
List == [py |-> "list", items |-> <<>>]

\* {}
EmptyMap == Dict(<<>>)

\* _MetadataCache.__init__, lines 304-309
EmptyCache == Dict([kind \in Kinds |-> EmptyMap])

\* text that is not JSON
NotJson == [py |-> "text", items |-> <<>>]

\* no lookup was made
NoLookup == [kind |-> "", response |-> "", requested |-> FALSE]

\* no scan_cache.json
NoSnapshot == [exists |-> FALSE, json |-> NotJson]

\* threading.Lock(), unlocked
Free == 0

\* the interval of the model's rate limiter, in ticks
Interval == 2

\* the worker threads of the pool
MaxWorkers == 2

Workers == 1..MaxWorkers

\* _RateLimiter.__init__ for a positive interval; no worker has a task
LimiterInit ==
  /\ interval = Interval
  /\ now = 0
  /\ last = 0
  /\ limiter_lock = Free
  /\ worker = [w \in Workers |-> [pc |-> "idle", until |-> 0, calls |-> 0]]
  /\ last_return = -1

\* _MetadataCache.__init__ without a snapshot
CacheInit ==
  /\ cache_file = NoSnapshot
  /\ cache_made = TRUE
  /\ cache_data = EmptyCache
  /\ cache_lock = Free
  /\ lookup = NoLookup

\* no exception
NoException == ""

\* no worker was given a document
NoCall == [pc |-> "", online |-> FALSE]

\* no document is on its way
MergeInit ==
  /\ doc = BlankPdf
  /\ call = NoCall
  /\ candidate = EmptyRecord
  /\ matched = EmptyRecord

FaultInit == exc = NoException

OtherInit ==
  ScoringInit /\ LimiterInit /\ CacheInit /\ FaultInit /\ MergeInit

ScanInit ==
  /\ master_file = NoFile
  /\ present = {}
  /\ stem = [h \in Hashes |-> PdfOf(h).stem]
  /\ pc = "idle"
  /\ master_df = <<>>
  /\ index = BuildIndex(<<>>)
  /\ pending = {}
  /\ merged = <<>>
  /\ counts = NoCounts
  /\ runs = 0
  /\ imports = 0
  /\ prev = {}
  /\ SummaryInit

Init == ScanInit /\ OtherInit

-----------------------------------------------------------------------------
(* Actions                                                                 *)

\* a PDF file is put under the PDF root, in a directory of its own
AddPdf(h) ==
  /\ pc = "idle"
  /\ h \notin present
  /\ Cardinality(present) < MaxPdfs
  /\ present' = present \cup {h}
  /\ UNCHANGED <<master_file, stem, pc, master_df, index, pending, merged,
                 counts, runs, imports, prev>>
  /\ UNCHANGED summary_vars
  /\ UNCHANGED other_vars

\* sync_catalog imports a run CSV of one row between two scans
SyncCatalog(run_row) ==
  /\ pc = "idle"
  /\ imports < MaxImports
  /\ master_file' = SyncCatalogFile(master_file, run_row)
  /\ imports' = imports + 1
  /\ UNCHANGED <<present, stem, pc, master_df, index, pending, merged,
                 counts, runs, prev>>
  /\ UNCHANGED summary_vars
  /\ UNCHANGED other_vars

\* _timestamp_tag, lines 51-52: strftime drops what is below the second;
\* of "%Y%m%d_%H%M%S" the two digits of the seconds are kept here
TimestampTag(second, microsecond) ==
  <<DigitChars[(second \div 10) + 1], DigitChars[(second % 10) + 1]>>

\* the microseconds that datetime.now() can show
Microseconds == {0, 500000}

\* line 1059: scan_runs_dir / f"{scan_tag}.json"
RunPath(tag) == tag \o <<".", "j", "s", "o", "n">>

\* lines 1043-1056, summary.to_dict(): of the summary, the field that names
\* the run; the counters and the report paths are left out
Summary(tag) == [timestamp |-> tag]

\* line 1060: run_path.write_text
WriteRun(dir, tag) == (RunPath(tag) :> Summary(tag)) @@ dir

\* line 1071 as it would be without the slice
NewestAll(entries) == entries

\* line 1071: runs[:2]
Newest(entries) ==
  SubSeq(entries, 1, IF Len(entries) < 2 THEN Len(entries) ELSE 2)

\* line 1070: the entry of a run in latest.json
RunEntry(tag) == [timestamp |-> tag, path |-> RunPath(tag)]

\* lines 1062-1072: latest.json after the run of this tag
Rolled(file, tag) ==
  [exists |-> TRUE,
   runs   |-> Newest(<<RunEntry(tag)>> \o (IF file.exists THEN file.runs
                                                         ELSE <<>>))]

\* scan_library, lines 922-960: load the table, build the indexes, name the
\* run, submit one worker per PDF; no more than bound runs are started
StartRunWithin(bound) ==
  /\ pc = "idle"
  /\ runs < bound
  /\ present # {}
  /\ \E microsecond \in Microseconds :
       scan_tag' = TimestampTag(clock, microsecond)
  /\ UNCHANGED <<clock, scan_runs, latest>>
  /\ master_df' = LoadedTable(master_file)
  /\ index' = BuildIndex(master_df')
  /\ pending' = present
  /\ merged' = <<>>
  /\ counts' = [NoCounts EXCEPT !.total = Cardinality(present)]
  /\ runs' = runs + 1
  /\ pc' = "merging"
  /\ UNCHANGED <<master_file, present, stem, imports, prev>>
  /\ UNCHANGED other_vars

StartRun == StartRunWithin(MaxRuns)

\* lines 962-977 for a worker that could not open its PDF: PARSE_FAIL
DrainFailed(h) ==
  /\ pc = "merging"
  /\ h \in pending
  /\ pending' = pending \ {h}
  /\ counts' = [counts EXCEPT !.processed = @ + 1, !.errors = @ + 1,
                               !.error_counts["PARSE_FAIL"] = @ + 1]
  /\ UNCHANGED <<master_file, present, stem, pc, master_df, index, merged,
                 runs, imports, prev>>
  /\ UNCHANGED summary_vars
  /\ UNCHANGED other_vars

\* s or "0000"
OrZeros(s) == IF s # <<>> THEN s ELSE <<"0", "0", "0", "0">>

\* lines 979-984: the name the file has after the rename
RenamedStem(old_stem, entry) ==
  RenamePdf(old_stem, FirstAuthorLast(entry.authors),
            OrZeros(Strip(Str(entry.year))), entry.file_hash)

\* lines 969-971: the warnings of a result are counted, each under its code
RECURSIVE Warned(_, _)
Warned(c, codes) ==
  IF codes = <<>> THEN c
  ELSE Warned([c EXCEPT !.warnings = @ + 1,
                        !.warning_counts[Head(codes)] = @ + 1],
              Tail(codes))

\* the counters without line 1011: a merge is not counted as an update
CountedMatch(c, op) ==
  IF op = "created"
    THEN [c EXCEPT !.processed = @ + 1, !.created = @ + 1]
    ELSE [c EXCEPT !.processed = @ + 1, !.matched = @ + 1]

\* the counters after a candidate was created or merged
Counted(c, op) ==
  IF op = "created"
    THEN [c EXCEPT !.processed = @ + 1, !.created = @ + 1]
    ELSE [c EXCEPT !.processed = @ + 1, !.matched = @ + 1, !.updated = @ + 1]

\* lines 962-1011 for a worker that returned an entry
Drain(h, online) ==
  /\ pc = "merging"
  /\ h \in pending
  /\ \E e0 \in {ProcessPdf(PdfOf(h), stem[h], online)} :
       \E entry \in {WithIdentity(e0)} :
         \E res \in {MergeCandidate(master_df, index, entry)} :
           /\ stem' = [stem EXCEPT ![h] = RenamedStem(@, e0)]
           /\ master_df' = res.df
           /\ index' = res.index
           /\ merged' = (h :> [entry |-> entry, row |-> res.row, op |-> res.op])
                          @@ merged
           /\ counts' = Warned(Counted(counts, res.op),
                               Warnings(PdfOf(h), stem[h], online))
  /\ pending' = pending \ {h}
  /\ UNCHANGED <<master_file, present, pc, runs, imports, prev>>
  /\ UNCHANGED summary_vars
  /\ UNCHANGED other_vars

\* line 1015, once every future is drained
FillStep ==
  /\ pc = "merging"
  /\ pending = {}
  /\ master_df' = FillIdentifiers(master_df)
  /\ pc' = "filled"
  /\ UNCHANGED <<master_file, present, stem, index, pending, merged, counts,
                 runs, imports, prev>>
  /\ UNCHANGED summary_vars
  /\ UNCHANGED other_vars

\* line 1017
ResolveStep ==
  /\ pc = "filled"
  /\ master_df' = ApplyPreprintReplacements(master_df)
  /\ pc' = "resolved"
  /\ UNCHANGED <<master_file, present, stem, index, pending, merged, counts,
                 runs, imports, prev>>
  /\ UNCHANGED summary_vars
  /\ UNCHANGED other_vars

\* lines 1041-1074: the table is written, then the summary of the run and
\* latest.json; at the return the run's locals are gone
WriteStep ==
  /\ pc = "resolved"
  /\ master_file' = ToCsv(master_df, Fields)
  /\ scan_runs' = WriteRun(scan_runs, scan_tag)
  /\ latest' = Rolled(latest, scan_tag)
  /\ scan_tag' = NoTag
  /\ UNCHANGED clock
  /\ prev' = DOMAIN merged
  /\ pc' = "idle"
  /\ master_df' = <<>>
  /\ index' = BuildIndex(<<>>)
  /\ merged' = <<>>
  /\ counts' = NoCounts
  /\ UNCHANGED <<present, stem, pending, runs, imports>>
  /\ UNCHANGED other_vars

Next ==
  \/ \E h \in Hashes : AddPdf(h)
  \/ \E r \in ImportRows : SyncCatalog(r)
  \/ StartRun
  \/ \E h \in Hashes : DrainFailed(h)
  \/ \E h \in Hashes : \E online \in BOOLEAN : Drain(h, online)
  \/ FillStep
  \/ ResolveStep
  \/ WriteStep

Spec == Init /\ [][Next]_vars

TypeOK ==
  /\ pc \in {"idle", "merging", "filled", "resolved"}
  /\ present \subseteq Hashes
  /\ pending \subseteq present
  /\ DOMAIN merged \subseteq present \ pending
  /\ \A i \in 1..Len(master_df) : DOMAIN master_df[i] = Fields

\* _apply_preprint_replacements called on a table of its own, as
\* tests/test_catalogs.py calls it: rows of text cells, and rows as a CSV
\* import leaves them, loaded with NaN in the identity cells
MaxRows == 3

FpFoo == <<"f", "o", "o", "|", "s", "|", "1">>

FpBaz == <<"b", "a", "z", "|", "s", "|", "1">>

OldId == <<"d", "o", "i", ":", "o", "l", "d">>

RowId(i) == <<"i", "d", DigitChars[i + 1]>>

TextRow(fp, version, replaced_by) ==
  [EmptyRecord EXCEPT !.fingerprint = fp, !.version = version,
                      !.replaced_by = replaced_by]

ImportedRow ==
  [EmptyRecord EXCEPT !.fingerprint = NaN, !.version = NaN,
                      !.replaced_by = NaN, !.primary_id = NaN]

ResolverRows ==
  {TextRow(fp, version, replaced_by) :
     fp \in {<<>>, FpFoo, FpBaz},
     version \in {<<>>, VPreprint, VFinal},
     replaced_by \in {<<>>, OldId}}
  \cup {ImportedRow}

\* every row that has a primary_id has one of its own
Numbered(df) ==
  [i \in 1..Len(df) |->
     IF df[i].primary_id = NaN THEN df[i]
     ELSE [df[i] EXCEPT !.primary_id = RowId(i)]]

ResolverTables ==
  {Numbered(df) : df \in UNION {[1..n -> ResolverRows] : n \in 1..MaxRows}}

InitResolver ==
  /\ master_file = NoFile
  /\ present = {}
  /\ stem = [h \in Hashes |-> PdfOf(h).stem]
  /\ pc = "filled"
  /\ master_df \in ResolverTables
  /\ index = BuildIndex(<<>>)
  /\ pending = {}
  /\ merged = <<>>
  /\ counts = NoCounts
  /\ runs = 1
  /\ imports = 0
  /\ prev = {}
  /\ SummaryInit
  /\ OtherInit

NextResolver == ResolveStep

SpecResolver == InitResolver /\ [][NextResolver]_vars

\* The functions of catalogs/scoring.py called on a record of their own:
\* the dictionaries of tests/test_catalogs.py, and rows as scan_library
\* hands them over (row.to_dict()), where an empty cell of the file is NaN
One == <<"1">>

ScoredEntries ==
  [type      : {<<>>, NaN, TBook, TArticle, TUnknown},
   title     : {<<>>, TFooBar},
   authors   : {<<>>, ASmith},
   year      : {<<>>, NaN, Y2020},
   doi       : {<<>>, DoiFoobar},
   isbn      : {<<>>, One},
   url       : {<<>>, One},
   journal   : {<<>>, JExamples},
   venue     : {<<>>, One},
   volume    : {<<>>, One},
   issue     : {<<>>, One},
   pages     : {<<>>, One},
   file_hash : {<<"a", "1">>}]

InitScoring ==
  /\ ScanInit
  /\ LimiterInit
  /\ CacheInit
  /\ FaultInit
  /\ MergeInit
  /\ scored \in ScoredEntries
  /\ score = NoScore

\* the state that a call of a scoring function does not touch
outside_scoring ==
  <<scan_vars, summary_vars, limiter_vars, cache_vars, fault_vars, merge_vars>>

\* fingerprint(entry.get("title"), entry.get("authors"), entry.get("year"))
CallFingerprint ==
  /\ score' = [fn    |-> "fingerprint",
               value |-> Fingerprint(scored.title, scored.authors, scored.year)]
  /\ UNCHANGED <<scored, outside_scoring>>

\* primary_id of the record with the fingerprint just computed for it
CallPrimaryId ==
  /\ score.fn = "fingerprint"
  /\ score' = [fn    |-> "primary_id",
               value |-> PrimaryId(scored.doi, scored.isbn, score.value,
                                   scored.file_hash)]
  /\ UNCHANGED <<scored, outside_scoring>>

\* is_complete(entry, CompletenessConfig())
CallIsComplete ==
  /\ score' = [fn |-> "is_complete", value |-> IsComplete(scored)]
  /\ UNCHANGED <<scored, outside_scoring>>

NextScoring == CallFingerprint \/ CallPrimaryId \/ CallIsComplete

SpecScoring == InitScoring /\ [][NextScoring]_vars

\* _resolve_version called on an entry of its own: the four fields that can
\* name a preprint host, as text or as the NaN of an empty cell
UArxiv == <<"a", "r", "x", "i", "v", ".", "o", "r", "g", "/", "1">>

UOther == <<"x", ".", "o", "r", "g", "/", "1">>

DoiArxiv == <<"1", "0", ".", "4", "/", "a", "r", "X", "i", "v", ".", "1">>

VBiorxiv == <<"b", "i", "o", "R", "x", "i", "v">>

VersionEntries ==
  [journal : {<<>>, JArxiv, JExamples},
   venue   : {<<>>, VBiorxiv, JExamples},
   doi     : {<<>>, DoiFoobar, DoiArxiv},
   url     : {<<>>, UArxiv, UOther}]

InitVersion ==
  /\ ScanInit
  /\ LimiterInit
  /\ CacheInit
  /\ FaultInit
  /\ MergeInit
  /\ scored \in VersionEntries
  /\ score = NoScore

\* line 990: _resolve_version(entry)
CallResolveVersion ==
  /\ score = NoScore
  /\ score' = [fn |-> "_resolve_version", value |-> ResolveVersion(scored)]
  /\ UNCHANGED <<scored, outside_scoring>>

NextVersion == CallResolveVersion

SpecVersion == InitVersion /\ [][NextVersion]_vars

-----------------------------------------------------------------------------
(* One document from its worker into the row it matches: _process_pdf, then *)
(* lines 986-1011 of scan_library                                           *)

Isbn13 ==
  <<"9", "7", "8", "0", "1", "2", "3", "4", "5", "6", "7", "8", "6">>

HashW == <<"f", "6">>

SLee1999 == <<"L", "e", "e", "_", "1", "9", "9", "9">>

\* what Crossref has under the DOI of "Foo Bar"
CrossrefFooBar == [journal |-> JExamples, authors |-> ASmith, year |-> Y2020]

\* a title search that finds the DOI of the document
SearchFound == [doi |-> DoiFoobar]

\* what the pages of a document say
Texts ==
  {<<>>, <<"L", "i", "v", "r", "e">>, <<"a", " ", "P", "a", "p", "e", "r">>,
   <<"j", "o", "u", "r", "n", "a", "l", " ", "b", "o", "o", "k">>}

\* the documents a worker is given: the file name, the identifiers its
\* text prints, what the words of the text say of its type, the metadata of
\* the file, and the answers the providers have for it
Docs ==
  {[BlankPdf EXCEPT !.file_hash = HashW, !.stem = s, !.doi = d, !.isbn = i,
                    !.text_type = t, !.meta = m, !.crossref = c,
                    !.crossref_search = q] :
     s \in {<<"d", "o", "c">>, SLee1999}, d \in {<<>>, DoiFoobar},
     i \in {<<>>, Isbn13}, t \in {TextType(text) : text \in Texts},
     m \in {BlankPdf.meta, FooBarMeta}, c \in {NoMeta, CrossrefFooBar},
     q \in {NoMeta, SearchFound}}

\* the types a row of the table has when a run meets it: "" in a row the
\* run created, NaN in a row loaded with an empty cell
RowTypes == {<<>>, NaN, TUnknown, TArticle, TBook}

\* a row of the table that holds the file of the document
RowOf(pdf, type) ==
  [EmptyRecord EXCEPT !.file_hash = pdf.file_hash, !.type = type]

InitWorker ==
  /\ ScanInit
  /\ ScoringInit
  /\ LimiterInit
  /\ CacheInit
  /\ FaultInit
  /\ doc \in Docs
  /\ \E online \in BOOLEAN : call = [pc |-> "start", online |-> online]
  /\ candidate = EmptyRecord
  /\ \E type \in RowTypes : matched = RowOf(doc, type)

outside_worker ==
  <<scan_vars, summary_vars, scoring_vars, limiter_vars, cache_vars,
    fault_vars>>

\* the worker runs _process_pdf; lines 986-990 add the identity fields
Process ==
  /\ call.pc = "start"
  /\ candidate' = WithIdentity(ProcessPdf(doc, doc.stem, call.online))
  /\ call' = [call EXCEPT !.pc = "processed"]
  /\ UNCHANGED <<doc, matched, outside_worker>>

\* lines 993 and 1002-1011: the candidate is merged into the row it matches
Merge ==
  /\ call.pc = "processed"
  /\ FindMatch(candidate, BuildIndex(<<matched>>)) = 1
  /\ matched' = MergeIntoRow(matched, candidate)
  /\ call' = [call EXCEPT !.pc = "merged"]
  /\ UNCHANGED <<doc, candidate, outside_worker>>

NextWorker == Process \/ Merge

SpecWorker == InitWorker /\ [][NextWorker]_vars

-----------------------------------------------------------------------------
(* Worker threads calling _crossref_meta: the metadata cache, the rate     *)
(* limiter and the request                                                 *)

\* the by-DOI lookups each worker makes at most
MaxCalls == 2

\* the clock runs to this tick at least
MaxTime == 5

\* with self._lock: that leaves the lock with its holder
UnlockNot(holder) == holder

\* with self._lock: leaving the block unlocks
Unlock(holder) == Free

\* lines 294-297: when time.sleep(self.interval - delta) is over at the
\* earliest, the sleep starting no sooner than the clock was read
WakeTimeNow(read, previous, period) == read

WakeTime(read, previous, period) == read + (period - (read - previous))

\* self.data.get(kind, {}).get(key) is not None
Cached(data, kind, key) == key \in DOMAIN data.items[kind].items

\* self.data[kind][key] = value
CacheSet(data, kind, key, value) ==
  [data EXCEPT !.items[kind].items = (key :> value) @@ @]

\* the workers start with a limiter of either kind
InitLimiter ==
  /\ ScanInit
  /\ ScoringInit
  /\ CacheInit
  /\ FaultInit
  /\ MergeInit
  /\ interval \in {0, Interval}
  /\ now = 0
  /\ last = 0
  /\ limiter_lock = Free
  /\ worker = [w \in Workers |-> [pc |-> "idle", until |-> 0, calls |-> 0]]
  /\ last_return = -1

\* the state that a worker inside _crossref_meta does not touch
outside_limiter ==
  <<scan_vars, summary_vars, scoring_vars, cache_file, cache_made, lookup,
    fault_vars, merge_vars>>

\* _crossref_meta is entered
CrossrefMeta(w) ==
  /\ worker[w].pc = "idle"
  /\ worker[w].calls < MaxCalls
  /\ worker' = [worker EXCEPT ![w].pc = "get", ![w].calls = @ + 1]
  /\ UNCHANGED <<interval, now, last, limiter_lock, last_return, cache_data,
                 cache_lock, outside_limiter>>

\* cache.get, line 333: the lock is taken
CacheGetEnter(w) ==
  /\ worker[w].pc = "get"
  /\ cache_lock = Free
  /\ cache_lock' = w
  /\ worker' = [worker EXCEPT ![w].pc = "getting"]
  /\ UNCHANGED <<interval, now, last, limiter_lock, last_return, cache_data,
                 outside_limiter>>

\* cache.get, line 334, and lines 368-369: a cached answer is returned
CacheGetExit(w) ==
  /\ worker[w].pc = "getting"
  /\ cache_lock' = Unlock(cache_lock)
  /\ worker' = [worker EXCEPT ![w].pc =
                  IF Cached(cache_data, "crossref", DoiFoobar)
                    THEN "idle" ELSE "wait"]
  /\ UNCHANGED <<interval, now, last, limiter_lock, last_return, cache_data,
                 outside_limiter>>

\* wait, lines 291-292: no limit
WaitNoLimit(w) ==
  /\ worker[w].pc = "wait"
  /\ interval <= 0
  /\ worker' = [worker EXCEPT ![w].pc = "request"]
  /\ last_return' = now
  /\ UNCHANGED <<interval, now, last, limiter_lock, cache_data, cache_lock,
                 outside_limiter>>

\* wait, lines 293-297: the lock is taken, the clock read and the sleep
\* begun when the interval is not over
WaitEnter(w) ==
  /\ worker[w].pc = "wait"
  /\ interval > 0
  /\ limiter_lock = Free
  /\ limiter_lock' = w
  /\ worker' = [worker EXCEPT
                  ![w].pc = IF now - last < interval THEN "sleeping" ELSE "woken",
                  ![w].until = IF now - last < interval
                                 THEN WakeTime(now, last, interval) ELSE @]
  /\ UNCHANGED <<interval, now, last, last_return, cache_data, cache_lock,
                 outside_limiter>>

\* time.sleep returns, at the time asked for or later
Wake(w) ==
  /\ worker[w].pc = "sleeping"
  /\ now >= worker[w].until
  /\ worker' = [worker EXCEPT ![w].pc = "woken"]
  /\ UNCHANGED <<interval, now, last, limiter_lock, last_return, cache_data,
                 cache_lock, outside_limiter>>

\* wait, line 298
Stamp(w) ==
  /\ worker[w].pc = "woken"
  /\ last' = now
  /\ worker' = [worker EXCEPT ![w].pc = "stamped"]
  /\ UNCHANGED <<interval, now, limiter_lock, last_return, cache_data,
                 cache_lock, outside_limiter>>

\* wait returns: the lock is released and the request is sent
WaitExit(w) ==
  /\ worker[w].pc = "stamped"
  /\ limiter_lock' = Unlock(limiter_lock)
  /\ last_return' = now
  /\ worker' = [worker EXCEPT ![w].pc = "request"]
  /\ UNCHANGED <<interval, now, last, cache_data, cache_lock, outside_limiter>>

\* _fetch_json, lines 346-358, and _crossref_meta, lines 373-377: the
\* request ends, with a payload to cache or without
Respond(w, ok) ==
  /\ worker[w].pc = "request"
  /\ worker' = [worker EXCEPT ![w].pc = IF ok THEN "set" ELSE "idle"]
  /\ UNCHANGED <<interval, now, last, limiter_lock, last_return, cache_data,
                 cache_lock, outside_limiter>>

\* cache.set, line 337: the lock is taken
CacheSetEnter(w) ==
  /\ worker[w].pc = "set"
  /\ cache_lock = Free
  /\ cache_lock' = w
  /\ worker' = [worker EXCEPT ![w].pc = "setting"]
  /\ UNCHANGED <<interval, now, last, limiter_lock, last_return, cache_data,
                 outside_limiter>>

\* cache.set, lines 338-340, and the return of _crossref_meta
CacheSetExit(w) ==
  /\ worker[w].pc = "setting"
  /\ cache_data' = CacheSet(cache_data, "crossref", DoiFoobar, PdfB.crossref)
  /\ cache_lock' = Unlock(cache_lock)
  /\ worker' = [worker EXCEPT ![w].pc = "idle"]
  /\ UNCHANGED <<interval, now, last, limiter_lock, last_return,
                 outside_limiter>>

\* the clock goes on, as long as a sleeper waits for it
Tick ==
  /\ \/ now < MaxTime
     \/ \E w \in Workers : worker[w].pc = "sleeping" /\ worker[w].until > now
  /\ now' = now + 1
  /\ UNCHANGED <<interval, last, limiter_lock, worker, last_return, cache_data,
                 cache_lock, outside_limiter>>

\* the steps of worker w that do not depend on the network
Local(w) ==
  \/ CrossrefMeta(w)
  \/ CacheGetEnter(w)
  \/ CacheGetExit(w)
  \/ WaitNoLimit(w)
  \/ WaitEnter(w)
  \/ Wake(w)
  \/ Stamp(w)
  \/ WaitExit(w)
  \/ CacheSetEnter(w)
  \/ CacheSetExit(w)

NextLimiter ==
  \/ \E w \in Workers : Local(w)
  \/ \E w \in Workers : \E ok \in BOOLEAN : Respond(w, ok)
  \/ Tick

SpecLimiter == InitLimiter /\ [][NextLimiter]_vars

\* the threads are scheduled and the clock goes on; no response is promised
SpecLimiterFair ==
  /\ SpecLimiter
  /\ WF_vars(Tick)
  /\ \A w \in Workers : WF_vars(Local(w))

-----------------------------------------------------------------------------
(* Properties                                                              *)

-----------------------------------------------------------------------------
(* _MetadataCache on its own: constructed from a snapshot, read, written,  *)
(* saved                                                                   *)

\* self.data.setdefault(key, {}) for the four kinds, lines 321-322
SetDefaults(json) ==
  Dict([kind \in Kinds \cup DOMAIN json.items |->
          IF kind \in DOMAIN json.items THEN json.items[kind] ELSE EmptyMap])

\* _load, lines 313-322: self.data and the exception raised. The except of
\* line 318 holds json.loads and read_text; the else branch of lines 320-322
\* is outside it and calls setdefault on whatever json.loads returned
Load(file) ==
  IF ~file.exists THEN [data |-> EmptyCache, exc |-> NoException]
  ELSE IF file.json.py = "text" THEN [data |-> EmptyCache, exc |-> NoException]
  ELSE IF file.json.py # "dict"
    THEN [data |-> EmptyCache, exc |-> "AttributeError"]
  ELSE [data |-> SetDefaults(file.json), exc |-> NoException]

\* get, line 334: self.data.get(kind, {}).get(key) raises when the value
\* under kind has no get
GetRaises(data, kind) ==
  IF kind \in DOMAIN data.items /\ data.items[kind].py # "dict"
    THEN "AttributeError" ELSE NoException

\* set, lines 338-340: self.data[kind][key] = value raises when the value
\* under kind is a list
SetRaises(data, kind) ==
  IF kind \in DOMAIN data.items /\ data.items[kind].py # "dict"
    THEN "TypeError" ELSE NoException

\* a key and a value to cache
CacheKey == DoiFoobar

CacheValue == PdfB.crossref

\* scan_cache.json with this JSON value in it
Snapshot(json) == [exists |-> TRUE, json |-> json]

\* a process starts with one of these snapshots: none, text that is not
\* JSON, [], {}, {"crossref": []}, a saved empty cache, a saved cache
InitCache ==
  /\ ScanInit
  /\ ScoringInit
  /\ LimiterInit
  /\ FaultInit
  /\ MergeInit
  /\ cache_made = FALSE
  /\ cache_data = EmptyCache
  /\ cache_lock = Free
  /\ lookup = NoLookup
  /\ \/ cache_file = NoSnapshot
     \/ cache_file = Snapshot(NotJson)
     \/ cache_file = Snapshot(List)
     \/ cache_file = Snapshot(EmptyMap)
     \/ cache_file = Snapshot(Dict([crossref |-> List]))
     \/ cache_file = Snapshot(EmptyCache)
     \/ cache_file = Snapshot(CacheSet(EmptyCache, "semantic", CacheKey,
                                       CacheValue))

outside_cache ==
  <<scan_vars, summary_vars, scoring_vars, limiter_vars, cache_lock,
    merge_vars>>

\* _MetadataCache(cache_path), lines 302-311
NewCache ==
  /\ ~cache_made
  /\ exc' = Load(cache_file).exc
  /\ cache_made' = (exc' = NoException)
  /\ cache_data' = Load(cache_file).data
  /\ UNCHANGED <<cache_file, lookup, outside_cache>>

\* cache.get(kind, key), lines 332-334
CallGet(kind, key) ==
  /\ cache_made
  /\ exc' = GetRaises(cache_data, kind)
  /\ UNCHANGED <<cache_file, cache_made, cache_data, lookup, outside_cache>>

\* cache.set(kind, key, value), lines 336-340
CallSet(kind, key, value) ==
  /\ cache_made
  /\ exc' = SetRaises(cache_data, kind)
  /\ cache_data' = IF exc' = NoException
                     THEN CacheSet(cache_data, kind, key, value)
                     ELSE cache_data
  /\ UNCHANGED <<cache_file, cache_made, lookup, outside_cache>>

\* cache.save(), lines 324-330: the OSError of a snapshot that cannot be
\* written is caught
CallSave(writable) ==
  /\ cache_made
  /\ exc' = NoException
  /\ cache_file' = IF writable THEN Snapshot(cache_data) ELSE cache_file
  /\ UNCHANGED <<cache_made, cache_data, lookup, outside_cache>>

\* the process ends; the next one constructs its cache from the snapshot
Exit ==
  /\ cache_made
  /\ cache_made' = FALSE
  /\ cache_data' = EmptyCache
  /\ exc' = NoException
  /\ UNCHANGED <<cache_file, lookup, outside_cache>>

\* how a request to a provider ends: _fetch_json returns None (request
\* error, status other than 200, body that is not JSON), or a payload that
\* names the document
Responses == {"failed", "found"}

SearchKinds == {"crossref_search", "semantic_search"}

\* the cache after a lookup that missed. _crossref_meta (lines 373-374) and
\* _semantic_meta (lines 437-438) return {} without a store when the
\* request failed; _crossref_search_title (lines 499-501) and
\* _semantic_search_title (lines 564-566) store {} first
AfterRequest(data, kind, key, response) ==
  IF response = "found" THEN CacheSet(data, kind, key, CacheValue)
  ELSE IF kind \in SearchKinds THEN CacheSet(data, kind, key, NoMeta)
  ELSE data

\* what a lookup did: whether it sent a request, and how the request ended
Looked(data, kind, key, response) ==
  IF Cached(data, kind, key)
    THEN [kind |-> kind, response |-> "", requested |-> FALSE]
    ELSE [kind |-> kind, response |-> response, requested |-> TRUE]

\* one of the four lookups, for the key: _crossref_meta, _semantic_meta,
\* _crossref_search_title, _semantic_search_title
CallLookup(kind, response) ==
  /\ cache_made
  /\ exc' = GetRaises(cache_data, kind)
  /\ IF exc' = NoException
       THEN /\ lookup' = Looked(cache_data, kind, CacheKey, response)
            /\ cache_data' =
                 IF lookup'.requested
                   THEN AfterRequest(cache_data, kind, CacheKey, response)
                   ELSE cache_data
       ELSE UNCHANGED <<lookup, cache_data>>
  /\ UNCHANGED <<cache_file, cache_made, outside_cache>>

NextCache ==
  \/ NewCache
  \/ \E kind \in Kinds : CallGet(kind, CacheKey)
  \/ \E kind \in Kinds : CallSet(kind, CacheKey, CacheValue)
  \/ \E writable \in BOOLEAN : CallSave(writable)
  \/ Exit
  \/ \E kind \in Kinds : \E response \in Responses : CallLookup(kind, response)

SpecCache == InitCache /\ [][NextCache]_vars

-----------------------------------------------------------------------------
(* Runs one after the other, the clock going on between them                *)

\* the runs of a library that are summarised
MaxSummaryRuns == 3

\* the PDF root holds one file or two
InitSummary ==
  /\ OtherInit
  /\ SummaryInit
  /\ master_file = NoFile
  /\ present \in {S \in SUBSET Hashes : Cardinality(S) \in 1..2}
  /\ stem = [h \in Hashes |-> PdfOf(h).stem]
  /\ pc = "idle"
  /\ master_df = <<>>
  /\ index = BuildIndex(<<>>)
  /\ pending = {}
  /\ merged = <<>>
  /\ counts = NoCounts
  /\ runs = 0
  /\ imports = 0
  /\ prev = {}

\* a second passes. The clock is read at line 951 only, so the seconds of a
\* run are told with those after it; no more seconds than runs are told
Second ==
  /\ pc = "idle"
  /\ clock < runs
  /\ clock' = clock + 1
  /\ UNCHANGED <<scan_vars, scan_tag, scan_runs, latest, other_vars>>

NextSummary ==
  \/ Second
  \/ StartRunWithin(MaxSummaryRuns)
  \/ \E h \in Hashes : DrainFailed(h)
  \/ \E h \in Hashes : Drain(h, FALSE)
  \/ FillStep
  \/ ResolveStep
  \/ WriteStep

SpecSummary == InitSummary /\ [][NextSummary]_vars

-----------------------------------------------------------------------------
(* A scan run that a fault ends: a task that raises, an interrupt          *)

\* what can happen to a task of the pool: nothing, PdfReader cannot parse
\* the file, the file cannot be read when it is hashed, a provider answers
\* 200 with JSON whose "author" is not a list
Faults == {"none", "corrupt", "hash_io", "bad_payload"}

\* _process_pdf: how the task ends. The try of lines 700-703 holds PdfReader
\* alone; _compute_hash (line 705, path.open and read) and the loops over
\* the payload (lines 383, 450, 519, 583) have no handler
ProcessPdfEnds(fault) ==
  IF fault = "corrupt" THEN "PARSE_FAIL"
  ELSE IF fault = "hash_io" THEN "OSError"
  ELSE IF fault = "bad_payload" THEN "TypeError"
  ELSE "entry"

\* what a task can raise
WorkerExceptions == {"OSError", "TypeError"}

\* the PDF roots a faulty run starts from
InitFaults ==
  /\ OtherInit
  /\ master_file = NoFile
  /\ present \in {S \in SUBSET Hashes : Cardinality(S) \in 1..MaxPdfs}
  /\ stem = [h \in Hashes |-> PdfOf(h).stem]
  /\ pc = "idle"
  /\ master_df = <<>>
  /\ index = BuildIndex(<<>>)
  /\ pending = {}
  /\ merged = <<>>
  /\ counts = NoCounts
  /\ runs = 0
  /\ imports = 0
  /\ prev = {}
  /\ SummaryInit

\* scan_library is left by an exception: its locals are gone, nothing after
\* the raise ran, line 1041 included
Raised(exception) ==
  /\ exc' = exception
  /\ pc' = "idle"
  /\ master_df' = <<>>
  /\ index' = BuildIndex(<<>>)
  /\ pending' = {}
  /\ merged' = <<>>
  /\ counts' = NoCounts
  /\ prev' = {}
  /\ scan_tag' = NoTag
  /\ UNCHANGED <<master_file, present, stem, runs, imports>>
  /\ UNCHANGED <<clock, scan_runs, latest>>
  /\ UNCHANGED <<scoring_vars, limiter_vars, cache_vars, merge_vars>>

\* line 967: future.result() raises again what the task raised; the with
\* block of line 956 waits for the other tasks and lets the exception go
DrainRaised(h, fault) ==
  /\ pc = "merging"
  /\ h \in pending
  /\ ProcessPdfEnds(fault) \in WorkerExceptions
  /\ Raised(ProcessPdfEnds(fault))

\* Ctrl-C while the loop of lines 962-1011 waits for a future: the
\* KeyboardInterrupt is raised in the main thread, which has no handler
Interrupt ==
  /\ pc = "merging"
  /\ pending # {}
  /\ Raised("KeyboardInterrupt")

NextFaults ==
  \/ StartRun
  \/ \E h \in Hashes : DrainFailed(h)
  \/ \E h \in Hashes : \E online \in BOOLEAN : Drain(h, online)
  \/ \E h \in Hashes : \E fault \in Faults : DrainRaised(h, fault)
  \/ Interrupt
  \/ FillStep
  \/ ResolveStep
  \/ WriteStep

SpecFaults == InitFaults /\ [][NextFaults]_vars


\* the files whose candidate the step merges (one on a Drain step, else none)
JustMerged == (DOMAIN merged') \ (DOMAIN merged)

\* the fields a merge may overwrite
MutableFields == {"type", "last_seen_run"}

\* C1: fill-only merge.  On every step that merges a candidate into a
\* matched row, each field of that row other than type and last_seen_run
\* that was not empty before the step has the same value after it.
C1_FillOnlyMerge ==
  [][\A h \in JustMerged :
       merged'[h].op = "updated" =>
         \A f \in Fields \ MutableFields :
           master_df[merged'[h].row][f] # <<>> =>
             master_df'[merged'[h].row][f] = master_df[merged'[h].row][f]]_vars

\* C1: a candidate was merged into a matched row that holds, for some
\* field, a value other than the one the candidate carries
C1_Witness ==
  \E h \in DOMAIN merged :
    /\ merged[h].op = "updated"
    /\ \E f \in (DOMAIN merged[h].entry) \ MutableFields :
         /\ merged[h].entry[f] # <<>>
         /\ master_df[merged[h].row][f] \notin {<<>>, merged[h].entry[f]}

\* the rows of the run's table that carry the file hash h
RowsOfHash(h) == {i \in 1..Len(master_df) : master_df[i].file_hash = h}

\* C2: dedup across runs.  A file without DOI or ISBN that the previous
\* run merged and that this run merges again is matched and updated, not
\* created, and the table holds exactly one row for it.
C2_DedupAcrossRuns ==
  \A h \in (DOMAIN merged) \cap prev :
    (PdfOf(h).doi = <<>> /\ PdfOf(h).isbn = <<>>) =>
      /\ merged[h].op = "updated"
      /\ Cardinality(RowsOfHash(h)) = 1

\* C2: a file without DOI or ISBN is merged by a second run and is matched
C2_Witness ==
  \E h \in (DOMAIN merged) \cap prev :
    /\ PdfOf(h).doi = <<>> /\ PdfOf(h).isbn = <<>>
    /\ merged[h].op = "updated"
    /\ counts.created = 0 /\ counts.matched > 0

\* C3: merge idempotence.  Right after a candidate was merged, merging it
\* again matches the row the first merge produced or updated and leaves
\* the table and the indexes as they are.
C3_MergeIdempotent ==
  [][\A h \in JustMerged :
       MergeCandidate(master_df', index', merged'[h].entry)
         = [df    |-> master_df',
            index |-> index',
            row   |-> merged'[h].row,
            op    |-> "updated"]]_vars

\* C3: in one run a candidate made a row and another was merged into a
\* matched row that lacked something the candidate carries
C3_Witness ==
  /\ pc = "merging"
  /\ \E h \in DOMAIN merged : merged[h].op = "created"
  /\ \E h \in DOMAIN merged :
       /\ merged[h].op = "updated"
       /\ \E f \in DOMAIN merged[h].entry :
            /\ merged[h].entry[f] # <<>>
            /\ master_df[merged[h].row][f] = merged[h].entry[f]
            /\ f \notin {"file_hash", "fingerprint", "doi", "title"}

\* the rows that the candidates of a sequence are merged into or make, when
\* they reach the merge loop in that order
RECURSIVE RowsInOrder(_, _, _)
RowsAfter(res, rest) == <<res.row>> \o RowsInOrder(res.df, res.index, rest)

RowsInOrder(df, idx, entries) ==
  IF entries = <<>> THEN <<>>
  ELSE RowsAfter(MergeCandidate(df, idx, Head(entries)), Tail(entries))

\* the orders in which the files of S can arrive
Orders(S) ==
  {o \in [1..Cardinality(S) -> S] :
     \A i, j \in 1..Cardinality(S) : i # j => o[i] # o[j]}

\* the rows of this run's candidates had they arrived in order o
RowsOfOrder(o) ==
  RowsInOrder(LoadedTable(master_file), BuildIndex(LoadedTable(master_file)),
              [k \in DOMAIN o |-> merged[o[k]].entry])

\* rows, got in order o, count and group the candidates as this run did
SameOutcome(o, rows) ==
  /\ Cardinality({rows[k] : k \in DOMAIN o})
       = Cardinality({merged[h].row : h \in DOMAIN merged})
  /\ \A i, j \in DOMAIN o :
       (rows[i] = rows[j]) <=> (merged[o[i]].row = merged[o[j]].row)

\* C4: order independence of the merge.  When the merge loop of a run is
\* over, every other arrival order of the same candidates on the same
\* starting table gives as many rows and the same grouping of candidates
\* into rows.
C4_OrderIndependent ==
  (pc = "merging" /\ pending = {}) =>
    \A o \in Orders(DOMAIN merged) : SameOutcome(o, RowsOfOrder(o))

\* C4: a merge loop is over that merged three candidates, two into one row
C4_Witness ==
  /\ pc = "merging" /\ pending = {}
  /\ Cardinality(DOMAIN merged) = 3
  /\ Cardinality({merged[h].row : h \in DOMAIN merged}) = 2

\* a cell without a value: "" in the table, or the NaN that an empty cell
\* of the file is loaded as
Missing(cell) == cell \in {<<>>, NaN}

\* C5: empty fields are filled by a merge.  On every step that merges a
\* candidate into a matched row, each field the candidate has a value for
\* and the row had none for, be the row new or loaded from the file of an
\* earlier run, holds the candidate's value after the step.
C5_EmptyFilled ==
  [][\A h \in JustMerged :
       merged'[h].op = "updated" =>
         \A f \in DOMAIN merged'[h].entry :
           (Missing(master_df[merged'[h].row][f]) /\ merged'[h].entry[f] # <<>>)
             => master_df'[merged'[h].row][f] = merged'[h].entry[f]]_vars

\* C5: a candidate was merged into a matched row of this run and gave it a
\* value it lacked
C5_Witness ==
  /\ runs = 1
  /\ \E h \in DOMAIN merged :
       /\ merged[h].op = "updated"
       /\ \E g \in (DOMAIN merged) \ {h} :
            /\ merged[g].row = merged[h].row
            /\ merged[g].op = "created"
            /\ \E f \in DOMAIN merged[h].entry :
                 /\ merged[g].entry[f] = <<>>
                 /\ merged[h].entry[f] # <<>>
                 /\ master_df[merged[h].row][f] = merged[h].entry[f]

\* the first of the four identifiers that has a value, with its prefix
ExpectedPrimaryId(row) ==
  IF ~Missing(row.doi) THEN <<"d", "o", "i", ":">> \o Lower(Str(row.doi))
  ELSE IF ~Missing(row.isbn) THEN <<"i", "s", "b", "n", ":">> \o Str(row.isbn)
  ELSE IF ~Missing(row.fingerprint)
    THEN <<"f", "p", ":">> \o Str(row.fingerprint)
  ELSE IF ~Missing(row.file_hash)
    THEN <<"h", "a", "s", "h", ":">> \o Str(row.file_hash)
  ELSE <<>>

\* C6: primary-id invariant.  At the end of a run, the primary_id of every
\* row is the first of doi, isbn, fingerprint and file hash that the row
\* has, with its prefix.
C6_PrimaryIdInvariant ==
  pc = "resolved" =>
    \A i \in 1..Len(master_df) :
      master_df[i].primary_id = ExpectedPrimaryId(master_df[i])

\* C6: a run ends with a row whose DOI came from the candidate that made it
C6_Witness ==
  /\ pc = "resolved"
  /\ \E h \in DOMAIN merged :
       /\ merged[h].op = "created"
       /\ merged[h].entry.doi # <<>>
       /\ master_df[merged[h].row].primary_id
            = ExpectedPrimaryId(master_df[merged[h].row])

\* C7: back-fill.  After the back-fill pass of a run, every row of the
\* table has a fingerprint and a primary_id.
C7_BackFill ==
  pc = "filled" =>
    \A i \in 1..Len(master_df) :
      ~Missing(master_df[i].fingerprint) /\ ~Missing(master_df[i].primary_id)

\* C7: the back-fill pass gave a fingerprint to a row that a CSV import had
\* put in the file
C7_Witness ==
  /\ pc = "filled"
  /\ \E i \in 1..Len(master_df) :
       /\ master_df[i].last_seen_run = RunCsvPath
       /\ \A h \in DOMAIN merged : merged[h].row # i
       /\ ~Missing(master_df[i].fingerprint)

\* the table as it stands: in the file between runs, in memory during one
TableNow == IF pc = "idle" THEN master_file.rows ELSE master_df

TableNext == IF pc' = "idle" THEN master_file'.rows ELSE master_df'

\* C8: replaced_by is never cleared.  A row whose replaced_by has a value
\* still has one after every step: a merge, the back-fill pass, the
\* Version Resolver pass, the write and the load of a later run, an import.
C8_ReplacedByKept ==
  [][\A i \in 1..Len(TableNow) :
       ~Missing(TableNow[i].replaced_by) =>
         /\ i <= Len(TableNext)
         /\ ~Missing(TableNext[i].replaced_by)]_vars

\* C8: a run has merged its candidates, back-filled and resolved a table
\* with a row whose replaced_by an earlier run had set and written
C8_Witness ==
  /\ pc = "resolved"
  /\ merged # <<>>
  /\ \E i \in 1..Len(master_file.rows) :
       /\ ~Missing(master_file.rows[i].replaced_by)
       /\ ~Missing(master_df[i].replaced_by)

\* the rows of df that share the fingerprint of row i, when it has one
GroupOf(df, i) ==
  {j \in 1..Len(df) :
     /\ Strip(Str(df[i].fingerprint)) # <<>>
     /\ Strip(Str(df[j].fingerprint)) = Strip(Str(df[i].fingerprint))}

VersionsOf(df, rows) == {Str(df[j].version) : j \in rows}

FinalsOf(df, rows) == {j \in rows : Str(df[j].version) = VFinal}

\* what the Version Resolver owes row i of df: the primary_id of the first
\* final row of its group when the row is a preprint of a group that has
\* both versions, no change otherwise
Resolved(df, i, group) ==
  IF Str(df[i].version) = VPreprint /\ VFinal \in VersionsOf(df, group)
    THEN [df[i] EXCEPT !.replaced_by =
            Strip(Str(df[First(FinalsOf(df, group))].primary_id))]
    ELSE df[i]

\* C9: Version Resolver grouping.  The pass gives every preprint row of a
\* group (rows sharing a non-empty fingerprint) that has a final row the
\* primary_id of the group's first final row as replaced_by, and leaves
\* every other row as it is.
C9_ResolverGrouping ==
  [][(pc = "filled" /\ pc' = "resolved") =>
       /\ Len(master_df') = Len(master_df)
       /\ \A i \in 1..Len(master_df) :
            master_df'[i] = Resolved(master_df, i, GroupOf(master_df, i))]_vars

\* C9: the pass ran on a table where a group has two final rows and a
\* preprint row, which now points at the first of them
C9_Witness ==
  /\ pc = "resolved"
  /\ Len(master_df) = 3
  /\ master_df[1].fingerprint = FpFoo /\ master_df[1].version = VFinal
  /\ master_df[2].fingerprint = FpFoo /\ master_df[2].version = VFinal
  /\ master_df[3].fingerprint = FpFoo /\ master_df[3].version = VPreprint
  /\ master_df[3].replaced_by = RowId(1)

\* C10: preprint resolution end to end.  When the preprint A and the final
\* B of "Foo Bar" (B with its journal) were both merged by a run, in either
\* order, then after the Version Resolver pass they are two rows, A's
\* replaced_by is "doi:10.1000/foobar" and B's is empty.
C10_PreprintScenario ==
  (/\ pc = "resolved"
   /\ {PdfA.file_hash, PdfB.file_hash} \subseteq DOMAIN merged
   /\ merged[PdfB.file_hash].entry.journal = JExamples) =>
    /\ merged[PdfA.file_hash].row # merged[PdfB.file_hash].row
    /\ master_df[merged[PdfA.file_hash].row].replaced_by
         = <<"d", "o", "i", ":">> \o DoiFoobar
    /\ Missing(master_df[merged[PdfB.file_hash].row].replaced_by)

\* C10: a run that merged A and B ends with A's row pointing at B's DOI
C10_Witness ==
  /\ pc = "resolved"
  /\ {PdfA.file_hash, PdfB.file_hash} \subseteq DOMAIN merged
  /\ merged[PdfA.file_hash].row # merged[PdfB.file_hash].row
  /\ master_df[merged[PdfA.file_hash].row].replaced_by
       = <<"d", "o", "i", ":">> \o DoiFoobar

\* the candidates this run merged before the step, that made a row of their
\* own without DOI or ISBN and share the fingerprint of entry
CreatedBare(entry) ==
  {g \in DOMAIN merged :
     /\ merged[g].op = "created"
     /\ merged[g].entry.doi = <<>> /\ merged[g].entry.isbn = <<>>
     /\ merged[g].entry.fingerprint = entry.fingerprint}

\* C11: identity upgrade.  On every step that merges a candidate carrying a
\* DOI, the candidate does not go into a row that an earlier candidate of
\* the same fingerprint made without DOI or ISBN: the two are distinct rows
\* with different primary_id.
C11_IdentityUpgrade ==
  [][\A h \in JustMerged :
       merged'[h].entry.doi # <<>> =>
         \A g \in CreatedBare(merged'[h].entry) :
           /\ merged'[h].row # merged[g].row
           /\ master_df'[merged'[h].row].primary_id
                # master_df'[merged[g].row].primary_id]_vars

\* C11: a row made without DOI or ISBN and, apart from it, the row of a
\* later candidate with a DOI and the same fingerprint
C11_Witness ==
  /\ pc = "merging"
  /\ \E g, h \in DOMAIN merged :
       /\ merged[g].op = "created" /\ merged[h].op = "updated"
       /\ merged[g].entry.doi = <<>> /\ merged[g].entry.isbn = <<>>
       /\ merged[h].entry.doi # <<>>
       /\ merged[h].entry.fingerprint = merged[g].entry.fingerprint
       /\ merged[h].row # merged[g].row
       /\ master_df[merged[h].row].primary_id
            # master_df[merged[g].row].primary_id

\* C12: fingerprint emptiness.  fingerprint returns "" for a record whose
\* title, authors and year are all "".
C12_FingerprintEmpty ==
  (/\ score.fn = "fingerprint"
   /\ scored.title = <<>> /\ scored.authors = <<>> /\ scored.year = <<>>)
    => score.value = <<>>

\* C12: fingerprint was called on a record without title, authors or year
C12_Witness ==
  /\ score.fn = "fingerprint"
  /\ scored.title = <<>> /\ scored.authors = <<>> /\ scored.year = <<>>
  /\ scored.doi = <<>> /\ scored.isbn = <<>>

\* the fields among names that the record has a value for
Filled(entry, names) == \A name \in names : ~Missing(entry[name])

\* the completeness rule: a book with title, authors, year and an ISBN or
\* a URL; an article with title, authors, year and a DOI or a journal or
\* venue with volume, issue and pages
CompleteByRule(entry) ==
  \/ /\ entry.type = TBook
     /\ Filled(entry, {"title", "authors", "year"})
     /\ ~Missing(entry.isbn) \/ ~Missing(entry.url)
  \/ /\ entry.type = TArticle
     /\ Filled(entry, {"title", "authors", "year"})
     /\ \/ ~Missing(entry.doi)
        \/ /\ ~Missing(entry.journal) \/ ~Missing(entry.venue)
           /\ Filled(entry, {"volume", "issue", "pages"})

\* C13: completeness rule.  is_complete is true exactly for the records
\* that the rule calls complete.
C13_CompletenessRule ==
  score.fn = "is_complete" => (score.value <=> CompleteByRule(scored))

\* C13: is_complete was true for an article without DOI that has a venue,
\* volume, issue and pages
C13_Witness ==
  /\ score.fn = "is_complete"
  /\ score.value = TRUE
  /\ scored.type = TArticle
  /\ scored.doi = <<>> /\ scored.journal = <<>> /\ scored.venue # <<>>

\* worker w is inside wait()
InWait(w) == worker[w].pc \in {"wait", "sleeping", "woken", "stamped"}

\* every worker that called wait() gets out of it
WaitReturns == \A w \in Workers : InWait(w) ~> (worker[w].pc = "request")

\* C14, as claimed: with a positive interval, a return from wait() comes at
\* least interval after the return before it, by whichever worker, and
\* every call of wait() returns.
C14_ReturnsApart ==
  /\ [][\A w \in Workers :
          (worker[w].pc = "stamped" /\ worker'[w].pc = "request"
             /\ last_return >= 0)
            => now - last_return >= interval]_vars
  /\ WaitReturns

\* C14, amended: with a positive interval, the time a call of wait() stamps
\* in _last, under the lock and before it returns, is at least interval
\* after the time stamped before it, and every call of wait() returns.
C14_StampsApart ==
  /\ [][last' # last => last' - last >= interval]_vars
  /\ WaitReturns

\* C14: two calls of wait() have returned, the second after a sleep
C14_Witness ==
  /\ interval > 0
  /\ last >= 2 * interval
  /\ last_return >= last
  /\ \E w \in Workers : worker[w].pc = "request"

\* worker w has a request in flight
InFlight(w) == worker[w].pc = "request"

\* worker w is inside cache.get or cache.set
InCache(w) == worker[w].pc \in {"get", "getting", "set", "setting"}

\* C15: no lock across a network call.  A worker whose request is in
\* flight holds neither the limiter's lock nor the cache's; and whether
\* or not responses ever come, every wait(), cache.get and cache.set that
\* a worker has begun completes.
C15_NoLockInFlight ==
  /\ [](\A w \in Workers :
          InFlight(w) => (limiter_lock # w /\ cache_lock # w))
  /\ \A w \in Workers : (InWait(w) \/ InCache(w)) ~> ~(InWait(w) \/ InCache(w))

\* C15: a request is in flight while another worker sleeps in wait() under
\* the limiter's lock
C15_Witness ==
  \E w, v \in Workers :
    /\ InFlight(w)
    /\ worker[v].pc = "sleeping"
    /\ limiter_lock = v
    /\ cache_lock = Free

-----------------------------------------------------------------------------
\* C16: workers never throw: while the merge loop runs, no task raises into
\* future.result(), whatever the file and the provider answers, and the loop
\* is left only once every file was processed (an interrupt apart)
C16_WorkersNeverThrow ==
  [][pc = "merging" =>
       /\ exc' \notin WorkerExceptions
       /\ (pc' # "merging" => (pending = {} \/ exc' = "KeyboardInterrupt"))]_vars

\* a task raised while other files were still to be processed and one file
\* of the run was already merged
C16_Witness ==
  /\ exc \in WorkerExceptions
  /\ pc = "idle"
  /\ runs > 0
  /\ Cardinality(present) > 1

-----------------------------------------------------------------------------
\* C18: cancellation checkpoint: when a run is interrupted while candidates
\* are still being processed, every row that the run created or updated in
\* its table is in the master table file afterwards
C18_CancellationCheckpoint ==
  [][(pc = "merging" /\ exc' = "KeyboardInterrupt" /\ pc' = "idle") =>
       \A h \in DOMAIN merged :
         /\ master_file'.exists
         /\ merged[h].row <= Len(master_file'.rows)
         /\ master_file'.rows[merged[h].row].file_hash
              = master_df[merged[h].row].file_hash]_vars

\* a run was interrupted after it merged a candidate and before the last
\* one was processed
C18_Witness ==
  /\ exc = "KeyboardInterrupt"
  /\ pc = "idle"
  /\ ~master_file.exists
  /\ \E h \in present : stem[h] # PdfOf(h).stem

-----------------------------------------------------------------------------
\* the snapshot is there and is not a map of maps
Corrupt(file) ==
  /\ file.exists
  /\ \/ file.json.py # "dict"
     \/ \E kind \in DOMAIN file.json.items : file.json.items[kind].py # "dict"

\* a cache that holds the four kinds and nothing under them
UsableEmpty(data) ==
  /\ data.py = "dict"
  /\ DOMAIN data.items = Kinds
  /\ \A kind \in Kinds :
       data.items[kind].py = "dict" /\ DOMAIN data.items[kind].items = {}

\* C17: cache persistence failures are never fatal: the constructor gives a
\* usable empty cache from a missing or corrupt snapshot without raising,
\* get and set on the cache do not raise, save returns normally when the
\* snapshot cannot be written
C17_CacheNeverFatal ==
  [][/\ exc' = NoException
     /\ (~cache_made /\ (~cache_file.exists \/ Corrupt(cache_file)))
          => (cache_made' /\ UsableEmpty(cache_data'))]_vars

\* the constructor was called on a snapshot that holds a JSON list
C17_Witness ==
  /\ cache_file.exists
  /\ cache_file.json.py = "list"
  /\ ~cache_made
  /\ exc # NoException

-----------------------------------------------------------------------------
\* the smaller of two numbers
Min(a, b) == IF a < b THEN a ELSE b

\* between two runs latest.json lists min(n, 2) runs, n being the runs made
ListsNewest == pc = "idle" => Len(latest.runs) = Min(runs, 2)

\* the run that ends is listed first, under the name made of its tag, the
\* run listed first before it is now second, and the summary of the run is
\* in the file of that name
NewestFirst ==
  pc = "resolved" /\ pc' = "idle" =>
    /\ latest'.exists
    /\ latest'.runs[1] = [timestamp |-> scan_tag, path |-> RunPath(scan_tag)]
    /\ latest.runs # <<>> => latest'.runs[2] = latest.runs[1]
    /\ RunPath(scan_tag) \in DOMAIN scan_runs'
    /\ scan_runs'[RunPath(scan_tag)].timestamp = scan_tag
    /\ \A name \in DOMAIN scan_runs : name \in DOMAIN scan_runs'

\* C19 as stated: after n runs latest.json lists min(n, 2) runs, the newest
\* first, and each run has its summary in a file of its own: there are as
\* many summary files as runs
C19_RollingPointerOwnFiles ==
  /\ [](ListsNewest)
  /\ [][NewestFirst]_vars
  /\ [](pc = "idle" => Cardinality(DOMAIN scan_runs) = runs)

\* C19, amended: after n runs latest.json lists min(n, 2) runs, the newest
\* first, and the summary of the run that ends is in the file named after
\* the second in which the run started, with the summaries kept before
C19_RollingPointer ==
  /\ [](ListsNewest)
  /\ [][NewestFirst]_vars

\* three runs were made, the last two in different seconds
C19_Witness ==
  /\ pc = "idle"
  /\ runs = MaxSummaryRuns
  /\ Len(latest.runs) = 2
  /\ latest.runs[1].timestamp # latest.runs[2].timestamp

-----------------------------------------------------------------------------
\* C20: last_seen_run on merge: when the merge loop merges a candidate into
\* a matched row, the row's last_seen_run is the tag of the run afterwards
C20_LastSeenRun ==
  [][\A h \in JustMerged :
       merged'[h].op = "updated" =>
         master_df'[merged'[h].row].last_seen_run = scan_tag]_vars

\* a candidate was merged into a matched row
C20_Witness ==
  /\ pc = "merging"
  /\ \E h \in DOMAIN merged : merged[h].op = "updated"

-----------------------------------------------------------------------------
\* the text names a preprint host
HasMarker(text) == \E tag \in PreprintTags : Contains(Lower(Str(text)), tag)

\* the version that the rule gives
VersionByRule(entry) ==
  IF \E name \in {"journal", "venue", "doi", "url"} : HasMarker(entry[name])
    THEN VPreprint
  ELSE IF entry.doi # <<>> THEN VFinal
  ELSE <<>>

\* C22: version derivation: _resolve_version returns preprint when the
\* journal, venue, doi or url of the record contains one of the markers,
\* otherwise final when the record has a DOI, otherwise the empty string
C22_VersionDerivation ==
  score.fn = "_resolve_version" => score.value = VersionByRule(scored)

\* _resolve_version was called on a record whose url alone names arXiv
C22_Witness ==
  /\ score.fn = "_resolve_version"
  /\ HasMarker(scored.url)
  /\ \A name \in {"journal", "venue", "doi"} : ~HasMarker(scored[name])

-----------------------------------------------------------------------------
\* the type that the rule gives a matched row
TypeByRule(row, entry) ==
  IF entry.isbn # <<>> THEN TBook
  ELSE IF row.type \in {<<>>, TUnknown} /\ entry.type # <<>> THEN entry.type
  ELSE row.type

\* C21: type rule on merge: after scan_library merged a candidate into a
\* matched row the type of the row is book if the candidate carries an ISBN,
\* otherwise the type of the candidate if the row's type was "" or unknown,
\* otherwise the type the row had
C21_TypeRuleOnMerge ==
  [][Merge => matched'.type = TypeByRule(matched, candidate)]_vars

\* a candidate with an ISBN was merged into a row typed article
C21_Witness ==
  /\ call.pc = "merged"
  /\ candidate.isbn # <<>>
  /\ matched.type = TArticle

-----------------------------------------------------------------------------
\* C23 as the specification words it: the entry returned by _process_pdf
\* has type book if an ISBN was found for the document, else article if a
\* DOI was found, else unknown
C23_TypeUnknownWithoutIdentifier ==
  call.pc # "start" =>
    candidate.type = IF doc.isbn # <<>> THEN TBook
                     ELSE IF candidate.doi # <<>> THEN TArticle
                     ELSE TUnknown

\* C23: type classification of a candidate: the entry returned by
\* _process_pdf has type book if an ISBN was found for the document, else
\* article if a DOI was found in it or by a title search, else the type that
\* the words of its text give (book, article or unknown)
C23_TypeClassification ==
  call.pc # "start" =>
    candidate.type = IF doc.isbn # <<>> THEN TBook
                     ELSE IF candidate.doi # <<>> THEN TArticle
                     ELSE doc.text_type

\* a document without identifier whose text speaks of a book was processed
C23_Witness ==
  /\ call.pc = "processed"
  /\ doc.isbn = <<>>
  /\ candidate.doi = <<>>
  /\ doc.text_type = TBook
  /\ candidate.type = TBook

-----------------------------------------------------------------------------
\* the field of the candidate holds the guess made from the file name: the
\* file gave no value for it, and the value is the one of the name
FromFilename(name) ==
  /\ LocalEntry(doc, doc.stem)[name] = <<>>
  /\ ExtractMetaFromFilename(doc.stem)[name] # <<>>
  /\ candidate[name] = ExtractMetaFromFilename(doc.stem)[name]

\* C24: filename metadata is merged last: in the candidate that
\* _process_pdf returns, a field holds the value guessed from the file name
\* only if no provider response consulted for the document supplied a value
\* for that field
C24_FilenameMergedLast ==
  call.pc # "start" =>
    \A name \in {"authors", "year", "title"} :
      FromFilename(name) =>
        \A n \in DOMAIN Consulted(doc, doc.stem, call.online) :
          ~Truthy(Get(Consulted(doc, doc.stem, call.online)[n], name))

\* a candidate holds the author guessed from the file name although the
\* by-DOI answer asked for after the title search names the authors
C24_Witness ==
  /\ call.pc = "processed"
  /\ FromFilename("authors")
  /\ doc.doi = <<>>
  /\ candidate.doi # <<>>
  /\ call.online
  /\ Truthy(Get(doc.crossref, "authors"))

-----------------------------------------------------------------------------
\* the cell holds a value: it is neither "" nor the NaN of an empty cell
HasValue(cell) == cell \notin {<<>>, NaN}

\* two rows of the table hold the same value in the column
SameValue(df, column) ==
  \E i \in 1..Len(df) : \E j \in 1..Len(df) :
    i # j /\ HasValue(df[i][column]) /\ df[i][column] = df[j][column]

\* C25: one row per DOI: starting from an empty master table, after any
\* sequence of candidates merged by scan_library, in one run or over
\* several, no two rows of the table carry the same DOI
C25_OneRowPerDoi == imports = 0 => ~SameValue(master_df, "doi")

\* a candidate with a DOI was merged into a table that has a row with
\* another DOI or none
C25_Witness ==
  /\ imports = 0
  /\ pc = "merging"
  /\ Len(master_df) >= 2
  /\ \E h \in DOMAIN merged : HasValue(merged[h].entry.doi)

-----------------------------------------------------------------------------
\* the index of kind k finds the value that row i holds in column k
Findable(df, idx, i, k) ==
  /\ IndexKey(k, df[i][k]) \in DOMAIN idx[k]
  /\ IndexKey(k, df[idx[k][IndexKey(k, df[i][k])]][k]) = IndexKey(k, df[i][k])

\* C26: index completeness: after every merge step of scan_library, create
\* or update, every identifier that a row holds is a key of the index of its
\* kind and is mapped to a row that holds it
C26_IndexComplete ==
  (pc = "merging" /\ merged # <<>>) =>
    \A i \in 1..Len(master_df) : \A k \in IdKinds :
      HasValue(master_df[i][k]) => Findable(master_df, index, i, k)

\* a matched row gained its DOI in a merge
C26_Witness ==
  /\ pc = "merging"
  /\ \E h \in DOMAIN merged :
       /\ merged[h].op = "updated"
       /\ HasValue(merged[h].entry.doi)
       /\ \E g \in DOMAIN merged :
            /\ merged[g].row = merged[h].row
            /\ merged[g].op = "created"
            /\ ~HasValue(merged[g].entry.doi)

-----------------------------------------------------------------------------
\* C27: fingerprint uniqueness: starting from an empty master table, after
\* any sequence of candidates merged by scan_library no two rows share the
\* same fingerprint, so a fingerprint group seen by the version resolver
\* never holds more than one row
C27_FingerprintUnique == imports = 0 => ~SameValue(master_df, "fingerprint")

\* a candidate whose fingerprint is the one of an existing row was merged
\* into a table of two rows, and the version resolver has run
C27_Witness ==
  /\ imports = 0
  /\ pc = "resolved"
  /\ Len(master_df) >= 2
  /\ \E h \in DOMAIN merged :
       /\ merged[h].op = "updated"
       /\ merged[h].entry.fingerprint = master_df[merged[h].row].fingerprint

-----------------------------------------------------------------------------
\* sum(histogram.values())
RECURSIVE SumOver(_, _)
SumOver(histogram, codes) ==
  IF codes = {} THEN 0
  ELSE LET code == CHOOSE c \in codes : TRUE
       IN histogram[code] + SumOver(histogram, codes \ {code})

\* C28: run counters: at the end of every uninterrupted scan_library run
\* processed equals total, created + matched + the documents whose result
\* has no entry equals processed, updated equals matched, the table grew by
\* created rows, and errors and warnings are the sums of their histograms
C28_RunCounters ==
  pc = "resolved" =>
    /\ counts.processed = counts.total
    /\ counts.created + counts.matched
         + Cardinality(present \ DOMAIN merged) = counts.processed
    /\ counts.updated = counts.matched
    /\ Len(master_df) = Len(LoadedTable(master_file)) + counts.created
    /\ counts.errors = SumOver(counts.error_counts, ErrorCodes)
    /\ counts.warnings = SumOver(counts.warning_counts, WarningCodes)

\* a run that created a row, merged into a row, met a PDF it could not
\* parse and counted warnings is at its end
C28_Witness ==
  /\ pc = "resolved"
  /\ counts.created > 0
  /\ counts.matched > 0
  /\ counts.errors > 0
  /\ counts.warnings > 1

-----------------------------------------------------------------------------
\* a lookup of the key has obtained a result: it is stored, or the worker
\* that received it is about to store it
Obtained ==
  \/ Cached(cache_data, "crossref", DoiFoobar)
  \/ \E w \in Workers : worker[w].pc \in {"set", "setting"}

\* worker w sends a request to the provider in this step
Requests(w) == worker[w].pc # "request" /\ worker'[w].pc = "request"

\* C29: at most one request per cache key: once one lookup of a key has
\* obtained a result, no lookup of that key sends a request to the
\* provider, also when several workers look the key up at the same time
C29_OneRequestPerKey ==
  [][\A w \in Workers : Requests(w) => ~Obtained]_vars

\* two workers looked the same key up at the same time: one holds the
\* result, the request of the other is out
C29_Witness ==
  \E v \in Workers : \E w \in Workers :
    /\ v # w
    /\ worker[v].pc \in {"set", "setting"}
    /\ worker[w].pc = "request"

-----------------------------------------------------------------------------
\* C30: transport failures are not cached: when a provider lookup, by DOI
\* or by title search, of either provider, fails in transport, the cache is
\* left unchanged for that key, so the next lookup of the key asks the
\* provider again
C30_FailuresNotCached ==
  [][\A kind \in Kinds :
       (CallLookup(kind, "failed") /\ lookup'.response = "failed") =>
         /\ cache_data' = cache_data
         /\ ~Cached(cache_data', kind, CacheKey)]_vars

\* the request of a title search failed
C30_Witness ==
  /\ lookup.kind \in SearchKinds
  /\ lookup.requested
  /\ lookup.response = "failed"

====
